---- MODULE Spec2Model ----
(***************************************************************************)
(* The mind-map Tree Store (the useMindMap hook) and the parts of App that *)
(* replace the document: the node tree, the selection, the bounded         *)
(* undo/redo history, and the operations on them; and MindMap's pointer    *)
(* handling on the nodes (press, drag, release, double click) with App's   *)
(* keyboard handler and text-edit mode.                                    *)
(*                                                                         *)
(* A node is a record [id, text, x, y, color, children, collapsed, icon,   *)
(* manualPosition]; children is a sequence of nodes.  A reference to a     *)
(* node inside a tree (what findNodeById returns in the source) is the     *)
(* path of child indices leading to it; "null" is the empty sequence <<>>  *)
(* and a found reference p is the one-element sequence <<p>>.              *)
(***************************************************************************)
EXTENDS Integers, Sequences, FiniteSets, TLC

VARIABLES
  state,            \* MindMapState: [root, selectedNodeId, history, historyIndex,
                    \*   zoom (in percent), pan (<<x, y>>)]
  editingNodeId,    \* App: the node in text-edit mode, or Null
  currentFilePath,  \* App: currentFilePathRef.current, or NoPath
  nextUuid,         \* the next identifier uuidv4() hands out (never reused)
  last,             \* the operation performed by the last step, with its arguments
  ur,               \* observer of "k undo() calls then k redo() calls" runs
  drag,             \* MindMap: the variables the drag handlers close over, the
                    \*   dragged datum's d.x and d.y, the pending reset timers,
                    \*   and the milliseconds on the clock since the last press
  press,            \* observer of the current press: what the pointer did
  editTimers,       \* App: the ids whose setTimeout(setEditingNodeId) is pending
  dialogs           \* the open-file dialogs: main's openDialogInProgress, App's
                    \*   dialogLocksRef.current.load, and the calls in flight

vars == <<state, editingNodeId, currentFilePath, nextUuid, last, ur,
          drag, press, editTimers, dialogs>>

----------------------------------------------------------------------------
(* Bounds of the exploration *)

\* how many identifiers uuidv4() may hand out in one run
MaxUuid == 3
\* history length up to which Spec and SpecApp keep pushing snapshots
MaxHist == 3
\* longest undo()/redo() run (the k of "k undo() then k redo()") observed
MaxRun == 3
\* how many nodes the snapshots of one history hold in all
MaxStored == 5
\* the same, in SpecApp, where documents are loaded
MaxStoredApp == 12
\* history length up to which SpecDoc keeps pushing snapshots
MaxHistDoc == 2
\* how many nodes of one tree are dragged to a manual position
MaxManual == 1
\* how many 'drag' events one press has
MaxMoves == 3
\* SpecCap: the history length up to which the root is dragged
CapDragLen == 1
\* SpecUndo: how many mutations one run makes before it undoes them
MaxMutations == 51
\* SpecWrap: how many words a text has
MaxWords == 2
\* SpecDialog: how many calls for the dialog are in flight at once
MaxCalls == 3

(* Program constants *)

MAX_HISTORY == 50
Null == -1
NoPath == "none"

DEFAULT_LEFT_MARGIN == 100
TOOLBAR_HEIGHT_ESTIMATE == 64
\* window.innerWidth and window.innerHeight
InnerWidth == 1280
InnerHeight == 864
\* zoom: 1
DefaultZoom == 100

Max(a, b) == IF a > b THEN a ELSE b

\* usableHeight / 2 is exact for the heights used here
computeDefaultPan ==
  LET usableHeight == Max(InnerHeight - TOOLBAR_HEIGHT_ESTIMATE, 0)
  IN  <<DEFAULT_LEFT_MARGIN, usableHeight \div 2>>

LEVEL_COLORS == <<"#FFE5B4", "#E3F2FD", "#F3E5F5", "#2E7D32">>

NODE_ICON_VALUES == {"none", "idea", "important", "question", "check", "warning", "note"}

Min(a, b) == IF a < b THEN a ELSE b

\* Faulty getColorForDepth: the palette wraps around instead of staying on its
\* last entry.
getColorForDepthWrap(depth) == LEVEL_COLORS[(depth % Len(LEVEL_COLORS)) + 1]

getColorForDepth(depth) == LEVEL_COLORS[Min(depth, Len(LEVEL_COLORS) - 1) + 1]

----------------------------------------------------------------------------
(* Trees *)

RECURSIVE CloneChildren(_, _)
RECURSIVE JsonClone(_)
\* JSON.parse(JSON.stringify(node)): a structurally equal, independent copy;
\* every field that is present is a string, a number, a boolean or an array
JsonClone(node) ==
  [f \in DOMAIN node |->
     IF f = "children" THEN CloneChildren(node.children, 1) ELSE node[f]]
CloneChildren(children, i) ==
  IF i > Len(children) THEN <<>>
  ELSE <<JsonClone(children[i])>> \o CloneChildren(children, i + 1)

RECURSIVE nodeAt(_, _)
\* the node a reference points at
nodeAt(node, path) ==
  IF path = <<>> THEN node ELSE nodeAt(node.children[Head(path)], Tail(path))

RECURSIVE replaceAt(_, _, _)
\* the tree after the node a reference points at has been mutated into new
replaceAt(node, path, new) ==
  IF path = <<>> THEN new
  ELSE [node EXCEPT !.children[Head(path)] = replaceAt(@, Tail(path), new)]

RECURSIVE findNodeById(_, _)
RECURSIVE findNodeInChildren(_, _, _)
findNodeById(node, id) ==
  IF node.id = id THEN << <<>> >> ELSE findNodeInChildren(node, id, 1)
findNodeInChildren(node, id, i) ==
  IF i > Len(node.children) THEN <<>>
  ELSE LET found == findNodeById(node.children[i], id)
       IN  IF found # <<>> THEN << <<i>> \o found[1] >>
           ELSE findNodeInChildren(node, id, i + 1)

RECURSIVE findParentNode(_, _)
RECURSIVE findParentInChildren(_, _, _)
findParentNode(node, childId) == findParentInChildren(node, childId, 1)
findParentInChildren(node, childId, i) ==
  IF i > Len(node.children) THEN <<>>
  ELSE IF node.children[i].id = childId THEN << <<>> >>
  ELSE LET found == findParentNode(node.children[i], childId)
       IN  IF found # <<>> THEN << <<i>> \o found[1] >>
           ELSE findParentInChildren(node, childId, i + 1)

RECURSIVE getNodeDepth(_, _, _)
RECURSIVE getDepthInChildren(_, _, _, _)
getNodeDepth(root, nodeId, currentDepth) ==
  IF root.id = nodeId THEN currentDepth
  ELSE getDepthInChildren(root, nodeId, currentDepth, 1)
getDepthInChildren(root, nodeId, currentDepth, i) ==
  IF i > Len(root.children) THEN -1
  ELSE LET depth == getNodeDepth(root.children[i], nodeId, currentDepth + 1)
       IN  IF depth # -1 THEN depth
           ELSE getDepthInChildren(root, nodeId, currentDepth, i + 1)

\* uuidv4(): the n-th identifier handed out is n
\* Faulty uuidv4: it hands out the id of the root again.
uuidv4Again == state.root.id

uuidv4 == nextUuid

createInitialNode(id) ==
  [id |-> id, text |-> "Root", x |-> 0, y |-> 0, color |-> getColorForDepth(0),
   children |-> <<>>, collapsed |-> FALSE, icon |-> "none", manualPosition |-> FALSE]

----------------------------------------------------------------------------
(* History *)

\* Faulty variants of saveToHistory, each a slip the properties below must
\* detect: the cap is not applied;
saveToHistoryUncapped(prev, newRoot) ==
  LET sliced     == SubSeq(prev.history, 1, prev.historyIndex + 1)
      newHistory == Append(sliced, JsonClone(newRoot))
  IN  [prev EXCEPT !.root = newRoot,
                   !.history = newHistory,
                   !.historyIndex = Len(newHistory) - 1]

\* pop() in place of shift(): over the cap the newest snapshot is dropped;
saveToHistoryPop(prev, newRoot) ==
  LET sliced     == SubSeq(prev.history, 1, prev.historyIndex + 1)
      pushed     == Append(sliced, JsonClone(newRoot))
      newHistory == IF Len(pushed) > MAX_HISTORY
                    THEN SubSeq(pushed, 1, Len(pushed) - 1) ELSE pushed
  IN  [prev EXCEPT !.root = newRoot,
                   !.history = newHistory,
                   !.historyIndex = Len(newHistory) - 1]

\* the snapshots after the current index are not discarded.
saveToHistoryNoSlice(prev, newRoot) ==
  LET pushed     == Append(prev.history, JsonClone(newRoot))
      newHistory == IF Len(pushed) > MAX_HISTORY THEN Tail(pushed) ELSE pushed
  IN  [prev EXCEPT !.root = newRoot,
                   !.history = newHistory,
                   !.historyIndex = Len(newHistory) - 1]

saveToHistory(prev, newRoot) ==
  LET sliced     == SubSeq(prev.history, 1, prev.historyIndex + 1)
      pushed     == Append(sliced, JsonClone(newRoot))
      newHistory == IF Len(pushed) > MAX_HISTORY THEN Tail(pushed) ELSE pushed
  IN  [prev EXCEPT !.root = newRoot,
                   !.history = newHistory,
                   !.historyIndex = Len(newHistory) - 1]

\* Faulty undo: the index moves, the live tree is not replaced.
undoIndexOnly(prev) ==
  IF prev.historyIndex > 0
  THEN [prev EXCEPT !.historyIndex = prev.historyIndex - 1]
  ELSE prev

undo(prev) ==
  IF prev.historyIndex > 0
  THEN LET newIndex == prev.historyIndex - 1
       IN  [prev EXCEPT !.root = JsonClone(prev.history[newIndex + 1]),
                        !.historyIndex = newIndex]
  ELSE prev

\* Faulty redo: restores the snapshot at the index it leaves.
redoStale(prev) ==
  IF prev.historyIndex < Len(prev.history) - 1
  THEN LET newIndex == prev.historyIndex + 1
       IN  [prev EXCEPT !.root = JsonClone(prev.history[prev.historyIndex + 1]),
                        !.historyIndex = newIndex]
  ELSE prev

redo(prev) ==
  IF prev.historyIndex < Len(prev.history) - 1
  THEN LET newIndex == prev.historyIndex + 1
       IN  [prev EXCEPT !.root = JsonClone(prev.history[newIndex + 1]),
                        !.historyIndex = newIndex]
  ELSE prev

----------------------------------------------------------------------------
(* Tree Store operations: each gives the MindMapState after the call *)

\* result: [state, ret]; ret is the new node's id, or Null
addNode(st, parentId, text, newId) ==
  LET newRoot == JsonClone(st.root)
      parent  == findNodeById(newRoot, parentId)
  IN  IF parent # <<>>
      THEN LET parentDepth  == getNodeDepth(newRoot, parentId, 0)
               newNodeDepth == parentDepth + 1
               newNode == [id |-> newId, text |-> text, x |-> 0, y |-> 0,
                           color |-> getColorForDepth(newNodeDepth),
                           children |-> <<>>, collapsed |-> FALSE,
                           icon |-> "none", manualPosition |-> FALSE]
               p       == nodeAt(newRoot, parent[1])
               mutated == replaceAt(newRoot, parent[1],
                            [p EXCEPT !.collapsed = FALSE,
                                      !.children = Append(@, newNode)])
           IN  [state |-> [saveToHistory(st, mutated) EXCEPT !.selectedNodeId = newId],
                ret   |-> newId]
      ELSE [state |-> st, ret |-> Null]

findIndex(children, nodeId) ==
  LET hits == {i \in 1..Len(children) : children[i].id = nodeId}
  IN  IF hits = {} THEN -1
      ELSE (CHOOSE i \in hits : \A j \in hits : i <= j) - 1

\* children.splice(index, 0, newNode), index counted from 0
splice(children, index, newNode) ==
  SubSeq(children, 1, index) \o <<newNode>> \o SubSeq(children, index + 1, Len(children))

\* Faulty filter: the test is inverted, only the node to delete is kept.
RECURSIVE filterOutInverted(_, _)
filterOutInverted(children, nodeId) ==
  IF children = <<>> THEN <<>>
  ELSE IF Head(children).id = nodeId
       THEN <<Head(children)>> \o filterOutInverted(Tail(children), nodeId)
       ELSE filterOutInverted(Tail(children), nodeId)

\* children.filter(child => child.id !== nodeId)
RECURSIVE filterOut(_, _)
filterOut(children, nodeId) ==
  IF children = <<>> THEN <<>>
  ELSE IF Head(children).id # nodeId
       THEN <<Head(children)>> \o filterOut(Tail(children), nodeId)
       ELSE filterOut(Tail(children), nodeId)

\* Faulty addSiblingNode: the new node is spliced in at the node's own index.
addSiblingNodeBefore(st, nodeId, text, newId) ==
  IF nodeId = st.root.id
  THEN addNode(st, nodeId, text, newId)
  ELSE LET newRoot == JsonClone(st.root)
           parent  == findParentNode(newRoot, nodeId)
       IN  IF parent # <<>>
           THEN LET siblingDepth == getNodeDepth(newRoot, nodeId, 0)
                    newNode == [id |-> newId, text |-> text, x |-> 0, y |-> 0,
                                color |-> getColorForDepth(siblingDepth),
                                children |-> <<>>, collapsed |-> FALSE,
                                icon |-> "none", manualPosition |-> FALSE]
                    p            == nodeAt(newRoot, parent[1])
                    currentIndex == findIndex(p.children, nodeId)
                    mutated == replaceAt(newRoot, parent[1],
                                 [p EXCEPT !.children = splice(@, currentIndex, newNode)])
                IN  [state |-> [saveToHistory(st, mutated) EXCEPT !.selectedNodeId = newId],
                     ret   |-> newId]
           ELSE [state |-> st, ret |-> Null]

\* result: [state, ret]; ret is the new node's id, or Null
addSiblingNode(st, nodeId, text, newId) ==
  IF nodeId = st.root.id
  THEN addNode(st, nodeId, text, newId)
  ELSE LET newRoot == JsonClone(st.root)
           parent  == findParentNode(newRoot, nodeId)
       IN  IF parent # <<>>
           THEN LET siblingDepth == getNodeDepth(newRoot, nodeId, 0)
                    newNode == [id |-> newId, text |-> text, x |-> 0, y |-> 0,
                                color |-> getColorForDepth(siblingDepth),
                                children |-> <<>>, collapsed |-> FALSE,
                                icon |-> "none", manualPosition |-> FALSE]
                    p            == nodeAt(newRoot, parent[1])
                    currentIndex == findIndex(p.children, nodeId)
                    mutated == replaceAt(newRoot, parent[1],
                                 [p EXCEPT !.children = splice(@, currentIndex + 1, newNode)])
                IN  [state |-> [saveToHistory(st, mutated) EXCEPT !.selectedNodeId = newId],
                     ret   |-> newId]
           ELSE [state |-> st, ret |-> Null]

\* Faulty updateNodeText: saveToHistory is called outside the "if (node)".
updateNodeTextAlwaysSaves(st, nodeId, text) ==
  LET newRoot == JsonClone(st.root)
      node    == findNodeById(newRoot, nodeId)
  IN  IF node # <<>>
      THEN saveToHistory(st, replaceAt(newRoot, node[1],
                                [nodeAt(newRoot, node[1]) EXCEPT !.text = text]))
      ELSE saveToHistory(st, newRoot)

updateNodeText(st, nodeId, text) ==
  LET newRoot == JsonClone(st.root)
      node    == findNodeById(newRoot, nodeId)
  IN  IF node # <<>>
      THEN saveToHistory(st, replaceAt(newRoot, node[1],
                                [nodeAt(newRoot, node[1]) EXCEPT !.text = text]))
      ELSE st

updateNodeColor(st, nodeId, color) ==
  LET newRoot == JsonClone(st.root)
      node    == findNodeById(newRoot, nodeId)
  IN  IF node # <<>>
      THEN saveToHistory(st, replaceAt(newRoot, node[1],
                                [nodeAt(newRoot, node[1]) EXCEPT !.color = color]))
      ELSE st

\* Faulty toggleNodeCollapse: collapsing a node throws its children away.
toggleNodeCollapseDrops(st, nodeId) ==
  LET newRoot == JsonClone(st.root)
      node    == findNodeById(newRoot, nodeId)
  IN  IF node # <<>>
      THEN LET n == nodeAt(newRoot, node[1])
           IN  saveToHistory(st, replaceAt(newRoot, node[1],
                 [n EXCEPT !.collapsed = ~@,
                           !.children = IF n.collapsed THEN @ ELSE <<>>]))
      ELSE st

toggleNodeCollapse(st, nodeId) ==
  LET newRoot == JsonClone(st.root)
      node    == findNodeById(newRoot, nodeId)
  IN  IF node # <<>>
      THEN saveToHistory(st, replaceAt(newRoot, node[1],
                                [nodeAt(newRoot, node[1]) EXCEPT !.collapsed = ~@]))
      ELSE st

\* Faulty applyCollapse: deep is ignored, the descendants keep their flags.
applyCollapseShallow(current, collapsed, deep) ==
  [current EXCEPT !.collapsed = collapsed]

RECURSIVE applyCollapse(_, _, _)
RECURSIVE applyCollapseChildren(_, _, _)
applyCollapse(current, collapsed, deep) ==
  [current EXCEPT !.collapsed = collapsed,
                  !.children = IF deep THEN applyCollapseChildren(@, collapsed, deep) ELSE @]
applyCollapseChildren(children, collapsed, deep) ==
  IF children = <<>> THEN <<>>
  ELSE <<applyCollapse(Head(children), collapsed, deep)>>
         \o applyCollapseChildren(Tail(children), collapsed, deep)

setNodeCollapsed(st, nodeId, collapsed, deep) ==
  LET newRoot == JsonClone(st.root)
      node    == findNodeById(newRoot, nodeId)
  IN  IF node # <<>>
      THEN saveToHistory(st, replaceAt(newRoot, node[1],
                                applyCollapse(nodeAt(newRoot, node[1]), collapsed, deep)))
      ELSE st

RECURSIVE collapseDescendants(_)
RECURSIVE collapseChildren(_)
collapseDescendants(node) == [node EXCEPT !.children = collapseChildren(@)]
collapseChildren(children) ==
  IF children = <<>> THEN <<>>
  ELSE <<collapseDescendants([Head(children) EXCEPT !.collapsed = TRUE])>>
         \o collapseChildren(Tail(children))

collapseAll(st) ==
  LET newRoot == JsonClone(st.root)
  IN  saveToHistory(st, collapseDescendants([newRoot EXCEPT !.collapsed = FALSE]))

RECURSIVE expandDescendants(_)
RECURSIVE expandChildren(_)
expandDescendants(node) ==
  [node EXCEPT !.collapsed = FALSE, !.children = expandChildren(@)]
expandChildren(children) ==
  IF children = <<>> THEN <<>>
  ELSE <<expandDescendants(Head(children))>> \o expandChildren(Tail(children))

expandAll(st) ==
  LET newRoot == JsonClone(st.root)
  IN  saveToHistory(st, expandDescendants(newRoot))

updateNodeIcon(st, nodeId, icon) ==
  LET newRoot == JsonClone(st.root)
      node    == findNodeById(newRoot, nodeId)
  IN  IF node # <<>>
      THEN saveToHistory(st, replaceAt(newRoot, node[1],
                                [nodeAt(newRoot, node[1]) EXCEPT !.icon = icon]))
      ELSE st

\* Faulty deleteNode: without the root guard, on the root it empties the tree;
deleteNodeRootClears(st, nodeId) ==
  LET newRoot == JsonClone(st.root)
      parent  == IF nodeId = st.root.id THEN << <<>> >> ELSE findParentNode(newRoot, nodeId)
  IN  IF parent # <<>>
      THEN LET p       == nodeAt(newRoot, parent[1])
               mutated == replaceAt(newRoot, parent[1],
                            [p EXCEPT !.children = filterOut(@, nodeId)])
           IN  [saveToHistory(st, IF nodeId = st.root.id
                                  THEN [newRoot EXCEPT !.children = <<>>] ELSE mutated)
                  EXCEPT !.selectedNodeId = p.id]
      ELSE st

\* its children take the deleted node's place.
deleteNodePromotes(st, nodeId) ==
  IF nodeId = st.root.id THEN st
  ELSE LET newRoot == JsonClone(st.root)
           parent  == findParentNode(newRoot, nodeId)
       IN  IF parent # <<>>
           THEN LET p       == nodeAt(newRoot, parent[1])
                    index   == findIndex(p.children, nodeId)
                    orphans == p.children[index + 1].children
                    mutated == replaceAt(newRoot, parent[1],
                                 [p EXCEPT !.children =
                                    SubSeq(@, 1, index) \o orphans
                                      \o SubSeq(@, index + 2, Len(@))])
                IN  [saveToHistory(st, mutated) EXCEPT !.selectedNodeId = p.id]
           ELSE st

deleteNode(st, nodeId) ==
  IF nodeId = st.root.id THEN st
  ELSE LET newRoot == JsonClone(st.root)
           parent  == findParentNode(newRoot, nodeId)
       IN  IF parent # <<>>
           THEN LET p       == nodeAt(newRoot, parent[1])
                    mutated == replaceAt(newRoot, parent[1],
                                 [p EXCEPT !.children = filterOut(@, nodeId)])
                IN  [saveToHistory(st, mutated) EXCEPT !.selectedNodeId = p.id]
           ELSE st

\* Faulty updateNodePosition: the drag is pushed onto the history.
updateNodePositionSaves(st, nodeId, x, y) ==
  LET newRoot == JsonClone(st.root)
      node    == findNodeById(newRoot, nodeId)
  IN  IF node # <<>>
      THEN saveToHistory(st, replaceAt(newRoot, node[1],
                                 [nodeAt(newRoot, node[1]) EXCEPT
                                    !.x = x, !.y = y, !.manualPosition = TRUE]))
      ELSE st

updateNodePosition(st, nodeId, x, y) ==
  LET newRoot == JsonClone(st.root)
      node    == findNodeById(newRoot, nodeId)
  IN  IF node # <<>>
      THEN [st EXCEPT !.root = replaceAt(newRoot, node[1],
                                 [nodeAt(newRoot, node[1]) EXCEPT
                                    !.x = x, !.y = y, !.manualPosition = TRUE])]
      ELSE st

\* Faulty resetPositions: the children are not visited.
resetPositionsShallow(node) ==
  [node EXCEPT !.x = 0, !.y = 0, !.manualPosition = FALSE]

RECURSIVE resetPositions(_)
RECURSIVE resetPositionsChildren(_)
resetPositions(node) ==
  [node EXCEPT !.x = 0, !.y = 0, !.manualPosition = FALSE,
               !.children = resetPositionsChildren(@)]
resetPositionsChildren(children) ==
  IF children = <<>> THEN <<>>
  ELSE <<resetPositions(Head(children))>> \o resetPositionsChildren(Tail(children))

\* an argument left out (undefined) is Null
resetAllPositions(st, viewportWidth, viewportHeight) ==
  LET newRoot     == JsonClone(st.root)
      hasViewport == viewportWidth # Null /\ viewportHeight # Null
      centerPan   == IF hasViewport
                     THEN <<DEFAULT_LEFT_MARGIN, viewportHeight \div 2>>
                     ELSE computeDefaultPan
  IN  [st EXCEPT !.root = resetPositions(newRoot),
                 !.zoom = DefaultZoom,
                 !.pan = centerPan]

\* Faulty resetMindMap: the new tree is pushed onto the history of the
\* document that was open.
resetMindMapPushes(prev, newId) ==
  [saveToHistory(prev, createInitialNode(newId)) EXCEPT
     !.selectedNodeId = newId, !.zoom = DefaultZoom, !.pan = computeDefaultPan]

resetMindMap(prev, newId) ==
  LET initialRoot == createInitialNode(newId)
      snapshot    == JsonClone(initialRoot)
  IN  [prev EXCEPT !.root = initialRoot,
                   !.selectedNodeId = initialRoot.id,
                   !.history = <<snapshot>>,
                   !.historyIndex = 0,
                   !.zoom = DefaultZoom,
                   !.pan = computeDefaultPan]

----------------------------------------------------------------------------
(* Documents *)

Has(node, f) == f \in DOMAIN node

\* Faulty normalizeMindMapNode: an icon that is present is kept, whatever it is.
RECURSIVE normalizeAnyIcon(_)
normalizeAnyIcon(node) ==
  [id |-> node.id, text |-> node.text, x |-> node.x, y |-> node.y, color |-> node.color,
   children  |-> IF Has(node, "children")
                 THEN [i \in 1..Len(node.children) |-> normalizeAnyIcon(node.children[i])]
                 ELSE <<>>,
   collapsed |-> IF Has(node, "collapsed") THEN node.collapsed ELSE FALSE,
   manualPosition |-> IF Has(node, "manualPosition") THEN node.manualPosition ELSE FALSE,
   icon |-> IF Has(node, "icon") THEN node.icon ELSE "none"]

RECURSIVE normalizeMindMapNode(_)
RECURSIVE normalizeChildren(_)
\* a loaded node, with the fields that may be absent filled in; the fields it
\* came with are left as they are
normalizeMindMapNode(node) ==
  [f \in DOMAIN node \cup {"children", "collapsed", "manualPosition", "icon"} |->
     CASE f = "children" ->
            IF Has(node, "children") THEN normalizeChildren(node.children) ELSE <<>>
       [] f = "collapsed" -> IF Has(node, "collapsed") THEN node.collapsed ELSE FALSE
       [] f = "manualPosition" ->
            IF Has(node, "manualPosition") THEN node.manualPosition ELSE FALSE
       [] f = "icon" ->
            IF Has(node, "icon") /\ node.icon \in NODE_ICON_VALUES THEN node.icon
            ELSE "none"
       [] OTHER -> node[f]]
normalizeChildren(children) ==
  IF children = <<>> THEN <<>>
  ELSE <<normalizeMindMapNode(Head(children))>> \o normalizeChildren(Tail(children))

\* result: [state, editingNodeId, currentFilePath]; the id of a root that has
\* none is undefined, which is Null here
applyLoadedMindMap(prev, path, loadedRoot, filePath) ==
  LET normalized == normalizeMindMapNode(loadedRoot)
      snapshot   == JsonClone(normalized)
  IN  [state |-> [prev EXCEPT !.root = normalized,
                              !.history = <<snapshot>>,
                              !.historyIndex = 0,
                              !.selectedNodeId = IF Has(normalized, "id")
                                                 THEN normalized.id ELSE Null],
       editingNodeId   |-> Null,
       currentFilePath |-> IF filePath # "" THEN filePath ELSE path]

\* Faulty getVisibleNodes: the traversal descends below collapsed nodes too.
RECURSIVE getVisibleNodesAll(_)
getVisibleNodesAll(node) ==
  LET RECURSIVE each(_, _)
      each(children, i) ==
        IF i > Len(children) THEN <<>>
        ELSE getVisibleNodesAll(children[i]) \o each(children, i + 1)
  IN  <<node>> \o each(node.children, 1)

\* App.getVisibleNodes, as traverse(node) leaves the list it fills
RECURSIVE getVisibleNodes(_)
getVisibleNodes(node) ==
  LET RECURSIVE each(_, _)
      each(children, i) ==
        IF i > Len(children) THEN <<>>
        ELSE getVisibleNodes(children[i]) \o each(children, i + 1)
  IN  <<node>> \o (IF ~node.collapsed THEN each(node.children, 1) ELSE <<>>)

\* MindMap: the children accessor given to d3.hierarchy, and the nodes of the
\* hierarchy it builds, which are the nodes the tree layout places
hierarchyChildren(node) == IF node.collapsed THEN <<>> ELSE node.children
RECURSIVE hierarchyNodes(_)
hierarchyNodes(node) ==
  LET children == hierarchyChildren(node)
  IN  {node} \cup UNION {hierarchyNodes(children[i]) : i \in 1..Len(children)}

\* '' (a click on the empty canvas) is Null here: nodeId || null
handleNodeClick(prev, nodeId) == [prev EXCEPT !.selectedNodeId = nodeId]

handleStartEditing(prev, nodeId) == [prev EXCEPT !.selectedNodeId = nodeId]

\* String.prototype.trim on the value of the input, a sequence of pieces each
\* of which is a run of white space or a word
isSpace(piece) == piece = " "
RECURSIVE trimStart(_)
trimStart(value) ==
  IF value # <<>> /\ isSpace(Head(value)) THEN trimStart(Tail(value)) ELSE value
RECURSIVE trimEnd(_)
trimEnd(value) ==
  IF value # <<>> /\ isSpace(value[Len(value)])
  THEN trimEnd(SubSeq(value, 1, Len(value) - 1)) ELSE value
RECURSIVE join(_)
join(value) == IF value = <<>> THEN "" ELSE Head(value) \o join(Tail(value))
trim(value) == join(trimEnd(trimStart(value)))

\* handleKeyDown, for each key the MindMapState it leaves when no node is in
\* text-edit mode.  findIndex gives -1 for a selection that is not listed and
\* nodes[index] is counted from 0.
arrowUp(st) ==
  LET nodes == getVisibleNodes(st.root)
      index == findIndex(nodes, st.selectedNodeId)
  IN  IF st.selectedNodeId # Null /\ index > 0
      THEN [st EXCEPT !.selectedNodeId = nodes[index].id]
      ELSE st

arrowDown(st) ==
  LET nodes == getVisibleNodes(st.root)
      index == findIndex(nodes, st.selectedNodeId)
  IN  IF st.selectedNodeId # Null /\ index >= 0 /\ index < Len(nodes) - 1
      THEN [st EXCEPT !.selectedNodeId = nodes[index + 2].id]
      ELSE st

\* ArrowLeft, and Shift+Tab
selectParent(st) ==
  LET parent == findParentNode(st.root, st.selectedNodeId)
  IN  IF st.selectedNodeId # Null /\ parent # <<>>
      THEN [st EXCEPT !.selectedNodeId = nodeAt(st.root, parent[1]).id]
      ELSE st

arrowRightFolded(st) ==
  LET node == findNodeById(st.root, st.selectedNodeId)
  IN  IF /\ st.selectedNodeId # Null
         /\ node # <<>>
         /\ Len(nodeAt(st.root, node[1]).children) > 0
      THEN [st EXCEPT !.selectedNodeId = nodeAt(st.root, node[1]).children[1].id]
      ELSE st

arrowRight(st) ==
  LET node == findNodeById(st.root, st.selectedNodeId)
  IN  IF /\ st.selectedNodeId # Null
         /\ node # <<>>
         /\ ~nodeAt(st.root, node[1]).collapsed
         /\ Len(nodeAt(st.root, node[1]).children) > 0
      THEN [st EXCEPT !.selectedNodeId = nodeAt(st.root, node[1]).children[1].id]
      ELSE st

\* Space and Shift+Space call the Tree Store only for a selected node with
\* children
spaceCalls(st) ==
  LET node == findNodeById(st.root, st.selectedNodeId)
  IN  /\ st.selectedNodeId # Null
      /\ node # <<>>
      /\ Len(nodeAt(st.root, node[1]).children) > 0

spaceAlways(st, shiftKey) == toggleNodeCollapse(st, st.selectedNodeId)

space(st, shiftKey) ==
  IF spaceCalls(st)
  THEN IF shiftKey THEN setNodeCollapsed(st, st.selectedNodeId, FALSE, TRUE)
       ELSE toggleNodeCollapse(st, st.selectedNodeId)
  ELSE st

editorBlurAlways(st, editing, value) ==
  [state |-> updateNodeText(st, editing, trim(value)), editingNodeId |-> Null]

\* the blur handler of the inline editor's input, with App's updateNodeText
\* listener: the state and the edited node they leave
editorBlur(st, editing, value) ==
  LET newText == trim(value)
  IN  IF newText # ""
      THEN [state |-> updateNodeText(st, editing, newText), editingNodeId |-> Null]
      ELSE [state |-> st, editingNodeId |-> editing]

----------------------------------------------------------------------------
(* MindMap: the drag behaviour of a node and its double-click handler.

   d.x and d.y of a rendered node are its stored x and y: the render either
   places a node at its stored coordinates or writes the layout's coordinates
   into them.  d.x is the vertical and d.y the horizontal coordinate (the
   node is drawn at translate(d.y, d.x)), so a pointer delta <<dx, dy>> moves
   d.y by dx and d.x by dy.

   Time is in milliseconds.  drag.elapsed is Date.now() - dragStartTime: the
   time since the last press, which the clock stops counting at ClockCap.
   drag.timers holds, in firing order, the milliseconds left to each pending
   reset timer of the closure the next handler runs in. *)

DRAG_THRESHOLD == 10
DRAG_TIME_THRESHOLD == 120
\* 'end': dragDuration > 100
MinDragDuration == 100
\* 'end': setTimeout(..., 10)
ResetDelay == 10
\* the platform's double-click interval: two presses of one node this close
\* are followed by a dblclick event
DoubleClickInterval == 500
ClockCap == DoubleClickInterval + 1

\* the closure of a render, before any press; clicks and clickNode are the
\* platform's click count and the node it counts presses of
NewDrag ==
  [phase |-> "idle", node |-> Null, x |-> 0, y |-> 0,
   isDragging |-> FALSE, hasMoved |-> FALSE, dragStartNode |-> Null,
   dragStartX |-> 0, dragStartY |-> 0, accumulatedDx |-> 0, accumulatedDy |-> 0,
   elapsed |-> ClockCap, timers |-> <<>>, stale |-> FALSE,
   clicks |-> 0, clickNode |-> Null, focused |-> FALSE]

\* The render effect runs again: the nodes are rebuilt with handlers closing
\* over fresh variables.  A press under way stays with the handlers it
\* started with (stale: the next press meets the new ones).
rerender(d) ==
  IF d.phase = "pressed" THEN [d EXCEPT !.stale = TRUE]
  ELSE [NewDrag EXCEPT !.elapsed = d.elapsed, !.clicks = d.clicks,
                       !.clickNode = d.clickNode]

\* nodeElements.each: the rendered node whose id is editingNodeId gets the
\* inline editor, and its input is given the focus
editorFocused(st, editing) ==
  /\ editing # Null
  /\ \E n \in hierarchyNodes(st.root) : n.id = editing

\* the effect's dependencies: root, selectedNodeId, editingNodeId
MindMapEffect(d, st, editing, st2, editing2) ==
  IF \/ st2.root # st.root
     \/ st2.selectedNodeId # st.selectedNodeId
     \/ editing2 # editing
  THEN [rerender(d) EXCEPT !.focused = editorFocused(st2, editing2)]
  ELSE d

\* the reset timer's callback
resetDragging(d) ==
  [d EXCEPT !.isDragging = FALSE, !.hasMoved = FALSE, !.dragStartNode = Null,
            !.accumulatedDx = 0, !.accumulatedDy = 0]

\* dt milliseconds pass: the timers due in them fire
wait(d, dt) ==
  LET due  == Cardinality({i \in 1..Len(d.timers) : d.timers[i] <= dt})
      rest == [i \in 1..(Len(d.timers) - due) |-> d.timers[i + due] - dt]
      d1   == IF due > 0 THEN resetDragging(d) ELSE d
  IN  [d1 EXCEPT !.timers = rest, !.elapsed = Min(@ + dt, ClockCap)]

\* 'start' on the node n, before it calls onNodeClick
dragStart(d, n) ==
  [d EXCEPT !.phase = "pressed", !.node = n.id, !.x = n.x, !.y = n.y,
            !.isDragging = FALSE, !.hasMoved = FALSE, !.dragStartNode = n.id,
            !.dragStartX = n.x, !.dragStartY = n.y,
            !.accumulatedDx = 0, !.accumulatedDy = 0, !.elapsed = 0]

\* Faulty 'drag': either threshold alone starts the drag.
dragMoveEither(d, dx, dy) ==
  LET accDx == d.accumulatedDx + dx
      accDy == d.accumulatedDy + dy
      begins == /\ ~d.hasMoved
                /\ \/ accDx * accDx + accDy * accDy > DRAG_THRESHOLD * DRAG_THRESHOLD
                   \/ d.elapsed > DRAG_TIME_THRESHOLD
      moved == d.hasMoved \/ begins
  IN  [d EXCEPT !.accumulatedDx = accDx, !.accumulatedDy = accDy,
                !.hasMoved = moved, !.isDragging = @ \/ begins,
                !.x = IF moved THEN @ + dy ELSE @,
                !.y = IF moved THEN @ + dx ELSE @]

\* 'drag' with event.dx = dx and event.dy = dy; distanceFromStart >
\* DRAG_THRESHOLD is compared in squares
dragMove(d, dx, dy) ==
  LET accDx == d.accumulatedDx + dx
      accDy == d.accumulatedDy + dy
      begins == /\ ~d.hasMoved
                /\ accDx * accDx + accDy * accDy > DRAG_THRESHOLD * DRAG_THRESHOLD
                /\ d.elapsed > DRAG_TIME_THRESHOLD
      moved == d.hasMoved \/ begins
  IN  [d EXCEPT !.accumulatedDx = accDx, !.accumulatedDy = accDy,
                !.hasMoved = moved, !.isDragging = @ \/ begins,
                !.x = IF moved THEN @ + dy ELSE @,
                !.y = IF moved THEN @ + dx ELSE @]

\* 'end' saves the position with onNodePositionChange
dragSaves(d) == d.hasMoved /\ d.isDragging /\ d.elapsed > MinDragDuration

\* 'end', after the position was saved
dragEnd(d) ==
  [d EXCEPT !.phase = "idle",
            !.x = IF ~d.hasMoved THEN d.dragStartX ELSE @,
            !.y = IF ~d.hasMoved THEN d.dragStartY ELSE @,
            !.timers = Append(@, ResetDelay)]

\* Faulty dblclick handler: it never starts the editing.
dblclickNever(d) == FALSE

\* the dblclick handler calls onStartEditing
dblclickEdits(d) == ~d.isDragging

----------------------------------------------------------------------------
(* Observers *)

RECURSIVE NodeIdsOf(_)
NodeIdsOf(node) ==
  (IF "id" \in DOMAIN node THEN {node.id} ELSE {})
    \cup UNION {NodeIdsOf(node.children[i]) : i \in 1..Len(node.children)}

\* What the step being taken does: the operation and its node-id argument
\* (Null when it has none); hit: the argument is a node of the live tree;
\* cut: how many snapshots lie after the current index; ret: the id an add
\* operation returned; par and kids: for deleteNode called on the id the
\* addNode of the step before returned, that addNode's parent and the
\* children the parent had before it (for addNode itself: its parent's
\* children before the call); more: the arguments after the node id of
\* setNodeCollapsed and updateNodePosition, and what
\* the editor held when it lost the focus; key: the key handleKeyDown was
\* called for; geo: what the render effect that followed the operation drew
\* (SpecLayout).
Op(name, arg) ==
  [op |-> name, arg |-> arg, ret |-> Null,
   hit |-> arg \in NodeIdsOf(state.root),
   cut |-> Len(state.history) - 1 - state.historyIndex,
   par |-> Null, kids |-> <<>>, more |-> <<>>, key |-> "", geo |-> <<>>]

\* What the pointer did since the press, until another operation is performed: moves events, sum their total
\* delta, path the length of the way it went; root, histLen: the tree and the
\* history length at the press; calls: the updateNodePosition calls made;
\* reached: a 'drag' event started the drag, at <<path, elapsed, sum>>; reset:
\* the reset timer of an earlier release fired during the press; shown: d.x
\* and d.y when 'end' returned; dbl: the release was followed by dblclick;
\* wasEditing: the node in text-edit mode at the press (for the second press
\* of a double click: at the first).
NoPress ==
  [node |-> Null, moves |-> 0, sum |-> <<0, 0>>, path |-> 0, root |-> <<>>,
   histLen |-> 0, calls |-> 0, reached |-> FALSE, reset |-> FALSE,
   at |-> <<0, 0, <<0, 0>>>>, shown |-> <<0, 0>>, dbl |-> FALSE,
   wasEditing |-> Null]

Free == [stage |-> "free", base |-> <<>>, clean |-> FALSE, n |-> 0, m |-> 0]
Fresh == [stage |-> "mut", base |-> <<>>, clean |-> FALSE, n |-> 0, m |-> 0]

\* a mutating Tree Store operation was called
urMutate == IF ur.stage = "mut" THEN ur ELSE Free
\* undo() was called on MindMapState st
urUndo(st) ==
  IF ur.stage = "mut"
  THEN [stage |-> "undo", base |-> <<st.root>>,
        clean |-> (st.root = st.history[st.historyIndex + 1]), n |-> 1, m |-> 0]
  ELSE IF ur.stage = "undo" /\ ur.n < MaxRun THEN [ur EXCEPT !.n = @ + 1]
  ELSE Free
\* redo() was called
urRedo ==
  IF ur.stage = "undo" THEN [ur EXCEPT !.stage = "redo", !.m = 1]
  ELSE IF ur.stage = "redo" /\ ur.m < ur.n THEN [ur EXCEPT !.m = @ + 1]
  ELSE Free

----------------------------------------------------------------------------
(* Steps *)

\* an id no node ever has
AbsentIds == {999}
ArgIds == NodeIdsOf(state.root) \cup AbsentIds
\* addNode's default text, and a text typed by the user
DefaultText == "New Node"
ArgTexts == {"Idea"}
ArgColors == {"#FFB84D"}
ArgIcons == {"idea"}
ArgPositions == {<<50, -10>>}

\* documents as JSON.parse returns them: fields of older documents are absent
PlanDoc ==
  [id |-> 101, text |-> "Plan", x |-> 0, y |-> 0, color |-> "#FFE5B4",
   collapsed |-> TRUE, icon |-> "star",
   children |-> <<
     [id |-> 102, text |-> "A", x |-> 0, y |-> 0, color |-> "#E3F2FD",
      children |-> <<
        [id |-> 105, text |-> "A1", x |-> 0, y |-> 0, color |-> "#F3E5F5",
         icon |-> "note", manualPosition |-> FALSE, collapsed |-> TRUE,
         children |-> <<
           [id |-> 106, text |-> "A1a", x |-> 0, y |-> 0, color |-> "#2E7D32"] >>] >>],
     [id |-> 103, text |-> "B", x |-> 0, y |-> 0, color |-> "#E3F2FD",
      children |-> <<>>, collapsed |-> FALSE, icon |-> "check"],
     [id |-> 104, text |-> "C", x |-> 0, y |-> 0, color |-> "#E3F2FD"] >>]
NoteDoc ==
  [id |-> 201, text |-> "Note", x |-> 0, y |-> 0, color |-> "#FFE5B4",
   children |-> <<
     [id |-> 202, text |-> "First", x |-> 40, y |-> 250, color |-> "#E3F2FD",
      children |-> <<>>, collapsed |-> FALSE, icon |-> "none",
      manualPosition |-> FALSE] >>,
   collapsed |-> FALSE, icon |-> "none", manualPosition |-> FALSE]
Docs == {PlanDoc, NoteDoc}
DocPath == "plan.json"

\* JSON.parse of a file's text, for the texts a file is taken to hold: "<plan>"
\* and "<note>" stand for the texts of the two documents, the others are
\* given as they are.  threw: a SyntaxError; the value null is JsonNull.
JsonNull == [isNull |-> TRUE]
JSONparse(data) ==
  CASE data = "<plan>" -> [threw |-> FALSE, value |-> PlanDoc]
    [] data = "<note>" -> [threw |-> FALSE, value |-> NoteDoc]
    [] data = "null" -> [threw |-> FALSE, value |-> JsonNull]
    [] data = "{}" -> [threw |-> FALSE, value |-> [f \in {} |-> 0]]
    [] data = "{\"id\":301,\"children\":[null]}" ->
         [threw |-> FALSE, value |-> [id |-> 301, children |-> <<JsonNull>>]]
    [] OTHER -> [threw |-> TRUE, value |-> JsonNull]

\* normalizeMindMapNode throws a TypeError: node.children is read of null,
\* in the root or in a child
RECURSIVE normalizeThrows(_)
normalizeThrows(node) ==
  \/ node = JsonNull
  \/ /\ Has(node, "children")
     /\ \E i \in 1..Len(node.children) : normalizeThrows(node.children[i])

\* handleLoad, handleReload and the onOpenFile listener given the text of a
\* file: whether the try block is left by an exception, or not entered
loadFails(data) ==
  \/ data = ""
  \/ JSONparse(data).threw
  \/ normalizeThrows(JSONparse(data).value)

----------------------------------------------------------------------------
(* Saving: the text of a document *)

\* The text JSON.stringify writes is a sequence of tokens; the white space of
\* the indentation, which JSON.parse skips, is left out.  A string or a number
\* is one token carrying its value.
Tok(t) == [t |-> t, v |-> 0]
StrTok(s) == [t |-> "str", v |-> s]
NumTok(n) == [t |-> "num", v |-> n]

\* the keys of a node in the order stringify visits them: the order in which
\* createInitialNode and addNode write them
KeyOrder ==
  <<"id", "text", "x", "y", "color", "children", "collapsed", "icon",
    "manualPosition">>
AllKeys == {KeyOrder[k] : k \in 1..Len(KeyOrder)}

RECURSIVE stringify(_, _)
RECURSIVE stringifyMembers(_, _, _, _)
RECURSIVE stringifyElements(_, _, _)
\* SerializeJSONObject for a node, over the given keys: a key whose value is
\* undefined is left out; booleans are written as the literals, numbers (all
\* finite here) and strings as they are, children as an array
stringify(node, keys) ==
  <<Tok("{")>> \o stringifyMembers(node, keys, 1, TRUE) \o <<Tok("}")>>
stringifyMembers(node, keys, k, first) ==
  IF k > Len(KeyOrder) THEN <<>>
  ELSE IF ~(KeyOrder[k] \in keys /\ Has(node, KeyOrder[k]))
       THEN stringifyMembers(node, keys, k + 1, first)
  ELSE (IF first THEN <<>> ELSE <<Tok(",")>>)
       \o <<StrTok(KeyOrder[k]), Tok(":")>>
       \o (CASE KeyOrder[k] \in {"collapsed", "manualPosition"} ->
                  <<Tok(IF node[KeyOrder[k]] THEN "true" ELSE "false")>>
             [] KeyOrder[k] \in {"x", "y"} -> <<NumTok(node[KeyOrder[k]])>>
             [] KeyOrder[k] = "children" ->
                  <<Tok("[")>> \o stringifyElements(node.children, keys, 1)
                  \o <<Tok("]")>>
             [] OTHER -> <<StrTok(node[KeyOrder[k]])>>)
       \o stringifyMembers(node, keys, k + 1, FALSE)
stringifyElements(children, keys, i) ==
  IF i > Len(children) THEN <<>>
  ELSE (IF i = 1 THEN <<>> ELSE <<Tok(",")>>)
       \o stringify(children[i], keys)
       \o stringifyElements(children, keys, i + 1)

\* Faulty serializeMindMap: the manualPosition flags are not written.
serializeWithoutFlags(st) == stringify(st.root, AllKeys \ {"manualPosition"})

\* JSON.stringify(state.root, null, 2)
serializeMindMap(st) == stringify(st.root, AllKeys)

RECURSIVE parseValue(_, _)
RECURSIVE parseObject(_, _, _)
RECURSIVE parseArray(_, _, _)
\* JSON.parse of a text that stringify wrote, read from token i on:
\* [value, next], next being the token after the value
parseValue(text, i) ==
  CASE text[i].t = "{" -> parseObject(text, i + 1, [f \in {} |-> 0])
    [] text[i].t = "[" -> parseArray(text, i + 1, <<>>)
    [] text[i].t = "true" -> [value |-> TRUE, next |-> i + 1]
    [] text[i].t = "false" -> [value |-> FALSE, next |-> i + 1]
    [] text[i].t = "null" -> [value |-> JsonNull, next |-> i + 1]
    [] OTHER -> [value |-> text[i].v, next |-> i + 1]
parseObject(text, i, object) ==
  IF text[i].t = "}" THEN [value |-> object, next |-> i + 1]
  ELSE IF text[i].t = "," THEN parseObject(text, i + 1, object)
  ELSE LET member == parseValue(text, i + 2)
       IN  parseObject(text, member.next,
             [f \in DOMAIN object \cup {text[i].v} |->
                IF f = text[i].v THEN member.value ELSE object[f]])
parseArray(text, i, array) ==
  IF text[i].t = "]" THEN [value |-> array, next |-> i + 1]
  ELSE IF text[i].t = "," THEN parseArray(text, i + 1, array)
  ELSE LET element == parseValue(text, i)
       IN  parseArray(text, element.next, Append(array, element.value))

\* handleLoad and handleReload given the text handleSave wrote:
\* normalizeMindMapNode(JSON.parse(result.data)), the tree applyLoadedMindMap
\* makes the live tree
loadedTree(data) == normalizeMindMapNode(parseValue(data, 1).value)

(* Sizes *)

RECURSIVE ManualCount(_)
RECURSIVE ManualCountChildren(_)
ManualCount(node) ==
  (IF node.manualPosition THEN 1 ELSE 0) + ManualCountChildren(node.children)
ManualCountChildren(children) ==
  IF children = <<>> THEN 0
  ELSE ManualCount(Head(children)) + ManualCountChildren(Tail(children))

RECURSIVE NodeCount(_)
RECURSIVE NodeCountChildren(_)
NodeCount(node) == 1 + NodeCountChildren(node.children)
NodeCountChildren(children) ==
  IF children = <<>> THEN 0
  ELSE NodeCount(Head(children)) + NodeCountChildren(Tail(children))

RECURSIVE StoredNodes(_)
StoredNodes(history) ==
  IF history = <<>> THEN 0 ELSE NodeCount(Head(history)) + StoredNodes(Tail(history))

\* Spec pushes while the history has fewer than MaxHist snapshots, which hold,
\* with the live tree, up to MaxStored nodes in all
MayPush ==
  /\ Len(state.history) < MaxHist
  /\ StoredNodes(state.history) + NodeCount(state.root) <= MaxStored

MayPushApp ==
  /\ Len(state.history) < MaxHist
  /\ StoredNodes(state.history) + NodeCount(state.root) <= MaxStoredApp

\* main's openDialogInProgress and App's dialogLocksRef.current.load as they
\* are declared, and no call in flight.  A call in flight is [from, at,
\* result]: it came from the toolbar ("toolbar": App.handleLoad) or from the
\* menu ("menu": the click handler of "Open..."); it is at the await it
\* waits in; result is what openMindmapFromDialog returned to it.
NoDialogs == [openDialogInProgress |-> FALSE, load |-> FALSE, calls |-> <<>>]

Init ==
  /\ state = [root |-> createInitialNode(1), selectedNodeId |-> 1,
              history |-> <<JsonClone(createInitialNode(1))>>, historyIndex |-> 0,
              zoom |-> DefaultZoom, pan |-> computeDefaultPan]
  /\ editingNodeId = Null
  /\ currentFilePath = NoPath
  /\ nextUuid = 2
  /\ last = [op |-> "init", arg |-> Null, ret |-> Null, hit |-> FALSE, cut |-> 0,
             par |-> Null, kids |-> <<>>, more |-> <<>>, key |-> "", geo |-> <<>>]
  /\ ur = Fresh
  /\ drag = NewDrag
  /\ press = NoPress
  /\ editTimers = {}
  /\ dialogs = NoDialogs

\* a call that leaves App's own state alone
StoreCall(st, op, urNew) ==
  /\ state' = st
  /\ last' = op
  /\ ur' = urNew
  /\ drag' = MindMapEffect(drag, state, editingNodeId, st, editingNodeId)
  /\ press' = NoPress
  /\ UNCHANGED <<editingNodeId, currentFilePath, nextUuid, editTimers, dialogs>>

AddCall(r, op) ==
  /\ nextUuid <= MaxUuid
  /\ state' = r.state
  /\ nextUuid' = IF r.ret # Null THEN nextUuid + 1 ELSE nextUuid
  /\ last' = [op EXCEPT !.ret = r.ret]
  /\ ur' = urMutate
  /\ drag' = MindMapEffect(drag, state, editingNodeId, r.state, editingNodeId)
  /\ press' = NoPress
  /\ UNCHANGED <<editingNodeId, currentFilePath, editTimers, dialogs>>

\* the children of the node with this id, wrapped; <<>> when there is none
KidsOf(node, id) ==
  LET RECURSIVE sub(_)
      sub(n) == {n} \cup UNION {sub(n.children[i]) : i \in 1..Len(n.children)}
      hits == {n \in sub(node) : n.id = id}
  IN  IF hits = {} THEN <<>> ELSE <<(CHOOSE n \in hits : TRUE).children>>

CallAddNode(parentId, text) ==
  AddCall(addNode(state, parentId, text, uuidv4),
          [Op("addNode", parentId) EXCEPT !.par = parentId,
                                          !.kids = KidsOf(state.root, parentId)])

CallAddSiblingNode(nodeId, text) ==
  AddCall(addSiblingNode(state, nodeId, text, uuidv4), Op("addSiblingNode", nodeId))

CallUpdateNodeText(nodeId, text) ==
  StoreCall(updateNodeText(state, nodeId, text), Op("updateNodeText", nodeId), urMutate)

CallUpdateNodeColor(nodeId, color) ==
  StoreCall(updateNodeColor(state, nodeId, color), Op("updateNodeColor", nodeId), urMutate)

CallUpdateNodeIcon(nodeId, icon) ==
  StoreCall(updateNodeIcon(state, nodeId, icon), Op("updateNodeIcon", nodeId), urMutate)

CallToggleNodeCollapse(nodeId) ==
  StoreCall(toggleNodeCollapse(state, nodeId), Op("toggleNodeCollapse", nodeId), urMutate)

CallSetNodeCollapsed(nodeId, collapsed, deep) ==
  StoreCall(setNodeCollapsed(state, nodeId, collapsed, deep),
            [Op("setNodeCollapsed", nodeId) EXCEPT !.more = <<collapsed, deep>>], urMutate)

DeleteOp(nodeId) ==
  LET undoesAdd == last.op = "addNode" /\ last.ret # Null /\ last.ret = nodeId
  IN  [Op("deleteNode", nodeId) EXCEPT
         !.par  = IF undoesAdd THEN last.par ELSE Null,
         !.kids = IF undoesAdd THEN last.kids ELSE <<>>]

CallDeleteNode(nodeId) == StoreCall(deleteNode(state, nodeId), DeleteOp(nodeId), urMutate)

CallUpdateNodePosition(nodeId, x, y) ==
  /\ ManualCount(state.root) < MaxManual
  /\ StoreCall(updateNodePosition(state, nodeId, x, y),
               [Op("updateNodePosition", nodeId) EXCEPT !.more = <<x, y>>], urMutate)

(* Spec: the Tree Store, called with any node id, on a document built from
   the initial one *)

DoAddNode ==
  \E parentId \in ArgIds : MayPush /\ CallAddNode(parentId, DefaultText)

DoAddSiblingNode ==
  \E nodeId \in ArgIds : MayPush /\ CallAddSiblingNode(nodeId, DefaultText)

DoUpdateNodeText ==
  \E nodeId \in ArgIds, text \in ArgTexts : MayPush /\ CallUpdateNodeText(nodeId, text)

DoUpdateNodeColor ==
  \E nodeId \in ArgIds, color \in ArgColors : MayPush /\ CallUpdateNodeColor(nodeId, color)

DoUpdateNodeIcon ==
  \E nodeId \in ArgIds, icon \in ArgIcons : MayPush /\ CallUpdateNodeIcon(nodeId, icon)

DoToggleNodeCollapse ==
  \E nodeId \in ArgIds : MayPush /\ CallToggleNodeCollapse(nodeId)

DoSetNodeCollapsed ==
  \E nodeId \in ArgIds, collapsed \in BOOLEAN, deep \in BOOLEAN :
    MayPush /\ CallSetNodeCollapsed(nodeId, collapsed, deep)

DoCollapseAll ==
  /\ MayPush
  /\ StoreCall(collapseAll(state), Op("collapseAll", Null), urMutate)

DoExpandAll ==
  /\ MayPush
  /\ StoreCall(expandAll(state), Op("expandAll", Null), urMutate)

DoDeleteNode ==
  \E nodeId \in ArgIds : MayPush /\ CallDeleteNode(nodeId)

DoUpdateNodePosition ==
  \E nodeId \in ArgIds, pos \in ArgPositions : CallUpdateNodePosition(nodeId, pos[1], pos[2])

\* App.handleAutoFit; more: the zoom and the number of dragged nodes before
DoResetAllPositions ==
  LET viewportWidth  == InnerWidth
      viewportHeight == InnerHeight - 64
  IN  StoreCall(resetAllPositions(state, viewportWidth, viewportHeight),
                [Op("resetAllPositions", Null) EXCEPT
                   !.more = <<state.zoom, ManualCount(state.root)>>],
                urMutate)

DoUndo == StoreCall(undo(state), Op("undo", Null), urUndo(state))

DoRedo == StoreCall(redo(state), Op("redo", Null), urRedo)

Next ==
  \/ DoAddNode
  \/ DoAddSiblingNode
  \/ DoUpdateNodeText
  \/ DoUpdateNodeColor
  \/ DoUpdateNodeIcon
  \/ DoToggleNodeCollapse
  \/ DoSetNodeCollapsed
  \/ DoCollapseAll
  \/ DoExpandAll
  \/ DoDeleteNode
  \/ DoUpdateNodePosition
  \/ DoResetAllPositions
  \/ DoUndo
  \/ DoRedo

Spec == Init /\ [][Next]_vars

(* SpecApp: App, which opens documents and calls the Tree Store with the
   selection *)

\* App.handleNew
HandleNew ==
  /\ nextUuid <= MaxUuid
  /\ state' = resetMindMap(state, uuidv4)
  /\ nextUuid' = nextUuid + 1
  /\ currentFilePath' = NoPath
  /\ editingNodeId' = Null
  /\ last' = Op("handleNew", Null)
  /\ ur' = Fresh
  /\ drag' = MindMapEffect(drag, state, editingNodeId, state', Null)
  /\ press' = NoPress
  /\ UNCHANGED <<editTimers, dialogs>>

\* a document that parsed: App.handleLoad, App.handleReload, the onOpenFile listener
LoadDocument(doc) ==
  LET r == applyLoadedMindMap(state, currentFilePath, doc, DocPath)
  IN  /\ state' = r.state
      /\ editingNodeId' = r.editingNodeId
      /\ currentFilePath' = r.currentFilePath
      /\ last' = Op("load", Null)
      /\ ur' = Free
      /\ drag' = MindMapEffect(drag, state, editingNodeId, r.state, r.editingNodeId)
      /\ press' = NoPress
      /\ UNCHANGED <<nextUuid, editTimers, dialogs>>

AppNew == HandleNew

AppLoad == \E doc \in Docs : LoadDocument(doc)

\* a press on a node or on the empty canvas
AppNodeClick ==
  \E nodeId \in NodeIdsOf(state.root) \cup {Null} :
    /\ state' = handleNodeClick(state, nodeId)
    /\ editingNodeId' = Null
    /\ last' = Op("handleNodeClick", nodeId)
    /\ ur' = Free
    /\ drag' = MindMapEffect(drag, state, editingNodeId, state', Null)
    /\ press' = NoPress
    /\ UNCHANGED <<currentFilePath, nextUuid, editTimers, dialogs>>

\* Enter or F2 on the selection, or a double click on the node just pressed
AppStartEditing ==
  \E nodeId \in NodeIdsOf(state.root) \cap {state.selectedNodeId} :
    /\ state' = handleStartEditing(state, nodeId)
    /\ editingNodeId' = nodeId
    /\ last' = Op("handleStartEditing", nodeId)
    /\ ur' = Free
    /\ drag' = MindMapEffect(drag, state, editingNodeId, state', nodeId)
    /\ press' = NoPress
    /\ UNCHANGED <<currentFilePath, nextUuid, editTimers, dialogs>>

\* Toolbar.onAddNode
AppAddNode ==
  /\ state.selectedNodeId # Null
  /\ MayPushApp
  /\ CallAddNode(state.selectedNodeId, DefaultText)

\* Toolbar.onDeleteNode, and the Delete and Backspace keys
AppDeleteNode ==
  /\ state.selectedNodeId # Null
  /\ MayPushApp
  /\ CallDeleteNode(state.selectedNodeId)

NextApp ==
  \/ AppNew
  \/ AppLoad
  \/ AppNodeClick
  \/ AppStartEditing
  \/ AppAddNode
  \/ AppDeleteNode
  \/ DoUndo
  \/ DoRedo

SpecApp == Init /\ [][NextApp]_vars

(* SpecCap: a history that fills up *)

CapToggleNodeCollapse == CallToggleNodeCollapse(state.root.id)

CapUpdateNodePosition ==
  /\ Len(state.history) <= CapDragLen
  /\ \E pos \in ArgPositions : CallUpdateNodePosition(state.root.id, pos[1], pos[2])

NextCap ==
  \/ CapToggleNodeCollapse
  \/ CapUpdateNodePosition
  \/ DoUndo
  \/ DoRedo
  \/ AppNew
  \/ AppLoad

SpecCap == Init /\ [][NextCap]_vars

(* SpecUndo: n mutations of one document, then n undo() calls.  Here ur
   counts: base holds the tree the document started with, n the mutations
   made since, m the undo() calls that followed them. *)

RunToggleNodeCollapse ==
  /\ ur.stage # "undo"
  /\ ur.n < MaxMutations
  /\ StoreCall(toggleNodeCollapse(state, state.root.id),
               Op("toggleNodeCollapse", state.root.id),
               [stage |-> "mut", clean |-> FALSE, n |-> ur.n + 1, m |-> 0,
                base |-> IF ur.n = 0 THEN <<state.history[1]>> ELSE ur.base])

RunUpdateNodePosition ==
  /\ ur.stage # "undo"
  /\ CapUpdateNodePosition

RunUndo ==
  /\ ur.n > 0
  /\ ur.m < ur.n
  /\ StoreCall(undo(state), Op("undo", Null),
               [ur EXCEPT !.stage = "undo", !.m = @ + 1])

NextUndo ==
  \/ RunToggleNodeCollapse
  \/ RunUpdateNodePosition
  \/ RunUndo
  \/ AppNew
  \/ AppLoad

SpecUndo == Init /\ [][NextUndo]_vars

(* SpecDoc: the Tree Store's collapse, sibling and position operations,
   called with any node id on documents that were loaded *)

MayPushDoc ==
  /\ Len(state.history) < MaxHistDoc
  /\ StoredNodes(state.history) + NodeCount(state.root) <= MaxStoredApp

DocAddSiblingNode ==
  \E nodeId \in ArgIds : MayPushDoc /\ CallAddSiblingNode(nodeId, DefaultText)

DocToggleNodeCollapse ==
  \E nodeId \in ArgIds : MayPushDoc /\ CallToggleNodeCollapse(nodeId)

DocSetNodeCollapsed ==
  \E nodeId \in ArgIds, collapsed \in BOOLEAN, deep \in BOOLEAN :
    MayPushDoc /\ CallSetNodeCollapsed(nodeId, collapsed, deep)

DocCollapseAll ==
  /\ MayPushDoc
  /\ StoreCall(collapseAll(state), Op("collapseAll", Null), urMutate)

DocExpandAll ==
  /\ MayPushDoc
  /\ StoreCall(expandAll(state), Op("expandAll", Null), urMutate)

NextDoc ==
  \/ AppLoad
  \/ DocAddSiblingNode
  \/ DocToggleNodeCollapse
  \/ DocSetNodeCollapsed
  \/ DocCollapseAll
  \/ DocExpandAll
  \/ DoUpdateNodePosition
  \/ DoUndo
  \/ DoRedo

SpecDoc == Init /\ [][NextDoc]_vars

(* SpecView: dragging, zooming and panning, and the automatic layout *)

\* what the wheel and a drag of the canvas report
ArgZooms == {150}
ArgPans == {<<120, 380>>}

\* MindMap's zoom handler: onZoomChange and onPanChange
ViewZoom ==
  \E zoom \in ArgZooms, pan \in ArgPans :
    /\ state' = [state EXCEPT !.zoom = zoom, !.pan = pan]
    /\ last' = Op("zoom", Null)
    /\ ur' = Free
    /\ press' = NoPress
    /\ UNCHANGED <<editingNodeId, currentFilePath, nextUuid, drag, editTimers, dialogs>>

NextView ==
  \/ AppLoad
  \/ AppNew
  \/ ViewZoom
  \/ DocToggleNodeCollapse
  \/ DoUpdateNodePosition
  \/ DoResetAllPositions
  \/ DoUndo
  \/ DoRedo

SpecView == Init /\ [][NextView]_vars

(* SpecPointer: presses, moves and releases of the pointer on the nodes.
   Each pointer event comes some milliseconds after the event before it. *)

\* the shorter one is shorter than ResetDelay: a timer may be pending at an event
ArgDelays == {4, 130}
\* event.dx and event.dy of a 'drag' event
ArgDeltas == {<<6, -8>>, <<-6, 8>>, <<48, -14>>}

Abs(a) == IF a < 0 THEN -a ELSE a
\* the length of a delta of ArgDeltas, which is a whole number
Length(delta) ==
  CHOOSE n \in 0..(Abs(delta[1]) + Abs(delta[2])) :
    n * n = delta[1] * delta[1] + delta[2] * delta[2]

\* the pointer is followed until it has dragged a node
MayPress == ManualCount(state.root) = 0

\* mousedown on a rendered node: 'start'
PointerDown ==
  \E n \in hierarchyNodes(state.root), dt \in ArgDelays :
    LET w     == wait(drag, dt)
        again == w.clicks = 1 /\ w.clickNode = n.id /\ w.elapsed <= DoubleClickInterval
        d     == [dragStart(w, n) EXCEPT !.clicks = IF again THEN 2 ELSE 1,
                                         !.clickNode = n.id]
    IN  /\ drag.phase = "idle"
        /\ MayPress
        /\ state' = handleNodeClick(state, n.id)
        /\ editingNodeId' = Null
        /\ drag' = MindMapEffect(d, state, editingNodeId, state', Null)
        /\ press' = [NoPress EXCEPT !.node = n.id, !.root = state.root,
                                    !.histLen = Len(state.history),
                                    !.wasEditing = IF again THEN press.wasEditing
                                                   ELSE editingNodeId]
        /\ last' = Op("pointerDown", n.id)
        /\ ur' = Free
        /\ UNCHANGED <<currentFilePath, nextUuid, editTimers, dialogs>>

\* mousemove during a press: 'drag'
PointerMove ==
  \E delta \in ArgDeltas, dt \in ArgDelays :
    LET w      == wait(drag, dt)
        d      == dragMove(w, delta[1], delta[2])
        begins == d.hasMoved /\ ~w.hasMoved
        path   == press.path + Length(delta)
        sum    == <<press.sum[1] + delta[1], press.sum[2] + delta[2]>>
    IN  /\ drag.phase = "pressed"
        /\ press.moves < MaxMoves
        /\ drag' = d
        /\ press' = [press EXCEPT !.moves = @ + 1, !.sum = sum, !.path = path,
                                  !.reached = @ \/ begins,
                                  !.reset = @ \/ Len(w.timers) < Len(drag.timers),
                                  !.at = IF begins THEN <<path, d.elapsed, sum>> ELSE @]
        /\ last' = Op("pointerMove", drag.node)
        /\ ur' = Free
        /\ UNCHANGED <<state, editingNodeId, currentFilePath, nextUuid, editTimers, dialogs>>

\* mouseup: 'end', and the dblclick event that follows the second of two
\* presses, which the handlers of the nodes then rendered receive
PointerUp ==
  \E dt \in ArgDelays :
    LET w     == wait(drag, dt)
        saves == dragSaves(w)
        st1   == IF saves THEN updateNodePosition(state, w.node, w.x, w.y) ELSE state
        e     == dragEnd(w)
        e1    == IF w.stale THEN rerender(e)
                 ELSE MindMapEffect(e, state, editingNodeId, st1, editingNodeId)
        dbl   == w.clicks = 2
        edits == dbl /\ dblclickEdits(e1)
        st2   == IF edits THEN handleStartEditing(st1, w.node) ELSE st1
        ed2   == IF edits THEN w.node ELSE editingNodeId
    IN  /\ drag.phase = "pressed"
        /\ state' = st2
        /\ editingNodeId' = ed2
        /\ drag' = MindMapEffect(e1, st1, editingNodeId, st2, ed2)
        /\ press' = [press EXCEPT !.calls = @ + (IF saves THEN 1 ELSE 0),
                                  !.reset = @ \/ Len(w.timers) < Len(drag.timers),
                                  !.shown = <<e.x, e.y>>, !.dbl = dbl]
        /\ last' = Op("pointerUp", w.node)
        /\ ur' = IF saves THEN urMutate ELSE Free
        /\ UNCHANGED <<currentFilePath, nextUuid, editTimers, dialogs>>

\* the keyboard and the toolbar are used between presses
BetweenPresses == drag.phase = "idle"

PtrLoad == BetweenPresses /\ AppLoad

\* handleKeyDown: Enter or F2
KeyEnter ==
  /\ editingNodeId = Null
  /\ state.selectedNodeId # Null
  /\ state' = handleStartEditing(state, state.selectedNodeId)
  /\ editingNodeId' = state.selectedNodeId
  /\ last' = Op("handleStartEditing", state.selectedNodeId)
  /\ ur' = Free
  /\ drag' = MindMapEffect(drag, state, editingNodeId, state', editingNodeId')
  /\ press' = NoPress
  /\ UNCHANGED <<currentFilePath, nextUuid, editTimers, dialogs>>

PtrEnter == BetweenPresses /\ KeyEnter

\* the Space key
PtrToggleNodeCollapse == BetweenPresses /\ DocToggleNodeCollapse

NextPointer ==
  \/ PtrLoad
  \/ PtrEnter
  \/ PtrToggleNodeCollapse
  \/ PointerDown
  \/ PointerMove
  \/ PointerUp

SpecPointer == Init /\ [][NextPointer]_vars

(* SpecEdit: the keyboard, the toolbar and the pointer, with the text editor
   and the timer that opens it on a node added with Tab *)

\* handleKeyDown: while a node is edited only Escape is acted on
KeysHeard == editingNodeId = Null

\* the step of a key: what it is recorded as
KeyOp(key, name) == [Op(name, state.selectedNodeId) EXCEPT !.key = key]

\* a key for which handleKeyDown calls nothing
KeyIgnored(key) == StoreCall(state, KeyOp(key, "none"), Free)

\* Tab: addNode(state.selectedNodeId), then
\* setTimeout(() => setEditingNodeId(newId), 100)
KeyTab ==
  LET r == addNode(state, state.selectedNodeId, DefaultText, uuidv4)
  IN  /\ KeysHeard
      /\ IF state.selectedNodeId = Null THEN KeyIgnored("Tab")
         ELSE /\ MayPushApp
              /\ nextUuid <= MaxUuid
              /\ state' = r.state
              /\ nextUuid' = IF r.ret # Null THEN nextUuid + 1 ELSE nextUuid
              /\ editTimers' = IF r.ret # Null THEN editTimers \cup {r.ret} ELSE editTimers
              /\ UNCHANGED dialogs
              /\ last' = [KeyOp("Tab", "addNode") EXCEPT
                            !.ret = r.ret, !.par = state.selectedNodeId,
                            !.kids = KidsOf(state.root, state.selectedNodeId)]
              /\ ur' = urMutate
              /\ drag' = MindMapEffect(drag, state, editingNodeId, r.state, editingNodeId)
              /\ press' = NoPress
              /\ UNCHANGED <<editingNodeId, currentFilePath>>

\* the timer set by Tab fires: setEditingNodeId(newId)
EditTimer ==
  \E newId \in editTimers :
    /\ editingNodeId' = newId
    /\ editTimers' = editTimers \ {newId}
    /\ UNCHANGED dialogs
    /\ last' = Op("setEditingNodeId", newId)
    /\ ur' = Free
    /\ drag' = MindMapEffect(drag, state, editingNodeId, state, newId)
    /\ press' = NoPress
    /\ UNCHANGED <<state, currentFilePath, nextUuid>>

\* the keys that move the selection
KeyUp == KeysHeard /\ StoreCall(arrowUp(state), KeyOp("ArrowUp", "select"), Free)

KeyDown == KeysHeard /\ StoreCall(arrowDown(state), KeyOp("ArrowDown", "select"), Free)

KeyLeft == KeysHeard /\ StoreCall(selectParent(state), KeyOp("ArrowLeft", "select"), Free)

KeyShiftTab == KeysHeard /\ StoreCall(selectParent(state), KeyOp("Shift+Tab", "select"), Free)

KeyRight == KeysHeard /\ StoreCall(arrowRight(state), KeyOp("ArrowRight", "select"), Free)

\* Space, and Shift+Space
KeySpace ==
  \E shiftKey \in BOOLEAN :
    LET key   == IF shiftKey THEN "Shift+Space" ELSE "Space"
        name  == IF shiftKey THEN "setNodeCollapsed" ELSE "toggleNodeCollapse"
        calls == spaceCalls(state)
    IN  /\ KeysHeard
        /\ calls => MayPushApp
        /\ StoreCall(space(state, shiftKey),
                     [KeyOp(key, IF calls THEN name ELSE "none") EXCEPT
                        !.more = IF calls /\ shiftKey THEN <<FALSE, TRUE>> ELSE <<>>],
                     IF calls THEN urMutate ELSE Free)

\* Delete and Backspace
KeyDelete ==
  /\ KeysHeard
  /\ IF state.selectedNodeId = Null THEN KeyIgnored("Delete")
     ELSE /\ MayPushApp
          /\ StoreCall(deleteNode(state, state.selectedNodeId),
                       [DeleteOp(state.selectedNodeId) EXCEPT !.key = "Delete"], urMutate)

\* what the editor's input holds when it loses the focus: a sequence of
\* pieces, each a run of white space or a word
InputValues == {<<>>, <<" ">>, <<" ", "Idea", " ">>}

\* the editor loses the focus: its blur handler, and App's updateNodeText
\* listener when the handler dispatches the event
Blur(name, value) ==
  LET r == editorBlur(state, editingNodeId, value)
      unfocused == [drag EXCEPT !.focused = FALSE]
  IN  /\ editingNodeId # Null
      /\ drag.focused
      /\ MayPushApp
      /\ state' = r.state
      /\ editingNodeId' = r.editingNodeId
      /\ last' = [Op(name, editingNodeId) EXCEPT !.more = <<value>>]
      /\ ur' = IF trim(value) # "" THEN urMutate ELSE Free
      /\ drag' = MindMapEffect(unfocused, state, editingNodeId, r.state, r.editingNodeId)
      /\ press' = NoPress
      /\ UNCHANGED <<currentFilePath, nextUuid, editTimers, dialogs>>

\* the focus leaves the input (a click elsewhere, another window)
InputBlur == \E value \in InputValues : Blur("blur", value)

\* Enter in the input: its keydown handler calls blur()
InputEnter == \E value \in InputValues : Blur("inputEnter", value)

\* Escape while a node is edited.  In the focused input its keydown handler
\* calls blur() and stops the event, which never reaches handleKeyDown;
\* elsewhere handleKeyDown ends the edit mode.
KeyEscape ==
  \/ \E value \in InputValues : Blur("escape", value)
  \/ /\ editingNodeId # Null
     /\ ~drag.focused
     /\ editingNodeId' = Null
     /\ last' = Op("escape", editingNodeId)
     /\ ur' = Free
     /\ drag' = MindMapEffect(drag, state, editingNodeId, state, Null)
     /\ press' = NoPress
     /\ UNCHANGED <<state, currentFilePath, nextUuid, editTimers, dialogs>>

NextEdit ==
  \/ KeyTab
  \/ EditTimer
  \/ KeyLeft
  \/ KeyShiftTab
  \/ KeyEnter
  \/ KeyEscape
  \/ KeyDelete
  \/ InputBlur
  \/ InputEnter
  \/ AppNodeClick
  \/ AppStartEditing
  \/ AppAddNode
  \/ AppDeleteNode
  \/ DoUndo
  \/ DoRedo

SpecEdit == Init /\ [][NextEdit]_vars

(* SpecKeys: the keyboard on loaded documents *)

\* a click on a rendered node or on the empty canvas
KeysClick ==
  \E n \in hierarchyNodes(state.root) \cup {[id |-> Null]} :
    /\ state' = handleNodeClick(state, n.id)
    /\ editingNodeId' = Null
    /\ last' = Op("handleNodeClick", n.id)
    /\ ur' = Free
    /\ drag' = MindMapEffect(drag, state, editingNodeId, state', Null)
    /\ press' = NoPress
    /\ UNCHANGED <<currentFilePath, nextUuid, editTimers, dialogs>>

NextKeys ==
  \/ AppLoad
  \/ KeysClick
  \/ KeyUp
  \/ KeyDown
  \/ KeyLeft
  \/ KeyShiftTab
  \/ KeyRight
  \/ KeySpace
  \/ KeyTab
  \/ EditTimer
  \/ KeyDelete
  \/ KeyEnter
  \/ InputEnter

SpecKeys == Init /\ [][NextKeys]_vars

(* SpecLoad: files that hold a document, and files that do not *)

\* the texts of the files opened
FileTexts ==
  {"<plan>", "<note>", "", "{\"id\":", "null", "{}", "{\"id\":301,\"children\":[null]}"}

\* handleLoad, handleReload, the onOpenFile listener: the file was read, and
\* its text is parsed and applied inside try
LoadFile ==
  \E data \in FileTexts :
    LET r == applyLoadedMindMap(state, currentFilePath, JSONparse(data).value, DocPath)
    IN  /\ state' = IF loadFails(data) THEN state ELSE r.state
        /\ editingNodeId' = IF loadFails(data) THEN editingNodeId ELSE r.editingNodeId
        /\ currentFilePath' = IF loadFails(data) THEN currentFilePath
                              ELSE r.currentFilePath
        /\ last' = [Op("loadFile", Null) EXCEPT !.more = <<data>>]
        /\ ur' = Free
        /\ drag' = MindMapEffect(drag, state, editingNodeId, state', editingNodeId')
        /\ press' = NoPress
        /\ UNCHANGED <<nextUuid, editTimers, dialogs>>

\* the live tree is one the other handlers can work on
Usable == "id" \in DOMAIN state.root

LoadNodeClick == Usable /\ AppNodeClick

LoadStartEditing == Usable /\ AppStartEditing

LoadAddNode == Usable /\ AppAddNode

NextLoad ==
  \/ LoadFile
  \/ AppNew
  \/ LoadNodeClick
  \/ LoadStartEditing
  \/ LoadAddNode

SpecLoad == Init /\ [][NextLoad]_vars

(* SpecDialog: the open-file dialog, asked for from the toolbar and from the
   menu.  Each step runs one handler from an await, or from its start, to
   its next await, or to its end. *)

\* the texts of the files chosen in the dialog
ChosenTexts == {"<plan>", "<note>", "", "{\"id\":"}

\* what openMindmapFromDialog returns
DialogInProgress == [success |-> FALSE, data |-> "", error |-> "dialog-in-progress"]
FileChosen(data) == [success |-> TRUE, data |-> data, error |-> ""]
DialogCancelled == [success |-> FALSE, data |-> "", error |-> ""]
ReadFailed == [success |-> FALSE, data |-> "", error |-> "EACCES"]

\* how a dialog ends: on a file that is read, on Cancel, or on a file whose
\* readFileSync throws
Outcomes == {FileChosen(data) : data \in ChosenTexts} \cup {DialogCancelled, ReadFailed}

\* faulty: openMindmapFromDialog without its check of openDialogInProgress
openMindmapFromDialogUnchecked(inProgress) ==
  [openDialogInProgress |-> TRUE, at |-> "dialog", result |-> DialogCancelled]

\* openMindmapFromDialog from its start to its await or to its first return:
\* the flag it leaves, where its caller then is, and the result returned
openMindmapFromDialog(inProgress) ==
  IF inProgress
  THEN [openDialogInProgress |-> inProgress, at |-> "reply", result |-> DialogInProgress]
  ELSE [openDialogInProgress |-> TRUE, at |-> "dialog", result |-> DialogCancelled]

\* the calls without the i-th
CallsWithout(calls, i) == SubSeq(calls, 1, i - 1) \o SubSeq(calls, i + 1, Len(calls))

\* a handler ran that leaves the document alone
DialogStep(d, op, ret) ==
  /\ dialogs' = d
  /\ last' = [Op(op, Null) EXCEPT !.ret = ret]
  /\ UNCHANGED <<state, editingNodeId, currentFilePath, nextUuid, ur, drag, press,
                 editTimers>>

\* the try block of handleLoad and of the onOpenFile listener, on a result
\* they were handed
DialogApply(d, op, result) ==
  LET r == applyLoadedMindMap(state, currentFilePath, JSONparse(result.data).value,
                              DocPath)
      skips == ~result.success \/ loadFails(result.data)
  IN  /\ dialogs' = d
      /\ state' = IF skips THEN state ELSE r.state
      /\ editingNodeId' = IF skips THEN editingNodeId ELSE r.editingNodeId
      /\ currentFilePath' = IF skips THEN currentFilePath ELSE r.currentFilePath
      /\ last' = [Op(op, Null) EXCEPT !.ret = result.error, !.more = <<result.data>>]
      /\ ur' = Free
      /\ drag' = MindMapEffect(drag, state, editingNodeId, state', editingNodeId')
      /\ press' = NoPress
      /\ UNCHANGED <<nextUuid, editTimers>>

\* Toolbar.onLoad: App.handleLoad up to its await
HandleLoad ==
  IF dialogs.load THEN DialogStep(dialogs, "handleLoad", "locked")
  ELSE /\ Len(dialogs.calls) < MaxCalls
       /\ DialogStep([dialogs EXCEPT
                        !.load = TRUE,
                        !.calls = Append(@, [from |-> "toolbar", at |-> "invoke",
                                             result |-> DialogCancelled])],
                     "handleLoad", "invoke")

\* main: the handler of 'load-file' runs openMindmapFromDialog
IpcLoadFile ==
  \E i \in DOMAIN dialogs.calls :
    LET r == openMindmapFromDialog(dialogs.openDialogInProgress)
    IN  /\ dialogs.calls[i].at = "invoke"
        /\ DialogStep([dialogs EXCEPT
                         !.openDialogInProgress = r.openDialogInProgress,
                         !.calls[i] = [@ EXCEPT !.at = r.at, !.result = r.result]],
                      "load-file", r.result.error)

\* main: the menu's "Open..." is clicked; a result without success ends the
\* handler
MenuOpen ==
  LET r == openMindmapFromDialog(dialogs.openDialogInProgress)
  IN  IF r.at = "dialog"
      THEN /\ Len(dialogs.calls) < MaxCalls
           /\ DialogStep([dialogs EXCEPT
                            !.openDialogInProgress = r.openDialogInProgress,
                            !.calls = Append(@, [from |-> "menu", at |-> r.at,
                                                 result |-> r.result])],
                         "Open...", r.result.error)
      ELSE DialogStep([dialogs EXCEPT !.openDialogInProgress = r.openDialogInProgress],
                      "Open...", r.result.error)

\* main: showOpenDialog resolves and openMindmapFromDialog runs to its end,
\* through finally.  The toolbar's call is sent the result; the menu's
\* handler sends 'open-file' if a file was read and its text is not empty.
DialogCloses ==
  \E i \in DOMAIN dialogs.calls, outcome \in Outcomes :
    LET c == dialogs.calls[i]
        sends == c.from = "toolbar" \/ (outcome.success /\ outcome.data # "")
        at == IF c.from = "toolbar" THEN "reply" ELSE "open-file"
    IN  /\ c.at = "dialog"
        /\ DialogStep([dialogs EXCEPT
                         !.openDialogInProgress = FALSE,
                         !.calls = IF sends
                                   THEN [@ EXCEPT ![i] = [c EXCEPT !.at = at,
                                                                   !.result = outcome]]
                                   ELSE CallsWithout(@, i)],
                      "showOpenDialog", outcome.error)

\* App.handleLoad from its await to its end, through finally
HandleLoadResumes ==
  \E i \in DOMAIN dialogs.calls :
    /\ dialogs.calls[i].at = "reply"
    /\ DialogApply([dialogs EXCEPT !.load = FALSE, !.calls = CallsWithout(@, i)],
                   "handleLoad returns", dialogs.calls[i].result)

\* App: the onOpenFile listener
OnOpenFile ==
  \E i \in DOMAIN dialogs.calls :
    /\ dialogs.calls[i].at = "open-file"
    /\ DialogApply([dialogs EXCEPT !.calls = CallsWithout(@, i)],
                   "open-file", dialogs.calls[i].result)

NextDialog ==
  \/ HandleLoad
  \/ IpcLoadFile
  \/ MenuOpen
  \/ DialogCloses
  \/ HandleLoadResumes
  \/ OnOpenFile
  \/ AppNew

SpecDialog == Init /\ [][NextDialog]_vars

----------------------------------------------------------------------------
(* The layout engine: what the render effect of MindMap does with the tree *)

\* lengths are counted in 1/Scale px: the layout halves box sizes, takes
\* tenths of separations and of font sizes, and divides shifts among siblings
Scale == 640
Px(n) == n * Scale

\* e, evaluated after v: a loop's steps are evaluated one after the other,
\* as they are run, and not all at the loop's end.  The loops over the
\* nodes are written as the loop over the first half of the nodes followed
\* by the loop over the second half.
Then(v, e) == IF v = v THEN e ELSE e

\* the lists f[lo], ..., f[hi], one after the other
RECURSIVE flat(_, _, _)
flat(f, lo, hi) ==
  IF lo > hi THEN <<>>
  ELSE IF lo = hi THEN f[lo]
  ELSE flat(f, lo, (lo + hi) \div 2) \o flat(f, (lo + hi) \div 2 + 1, hi)

\* d3.hierarchy(root, accessor) and descendants(): the nodes in breadth-first
\* order; parent is the place of the parent in the list (0 for the root), i
\* the place among the siblings, counted from 0, path the way from the root
RECURSIVE descendants(_, _)
\* nodes: the nodes found so far, from: the place of the first of those whose
\* children are still to be added
descendants(nodes, from) ==
  IF from > Len(nodes) THEN nodes
  ELSE LET childrenOf(k) ==
             LET children == hierarchyChildren(nodes[k].data)
             IN  [j \in 1..Len(children) |->
                    [data |-> children[j], depth |-> nodes[k].depth + 1,
                     parent |-> k, i |-> j - 1, path |-> Append(nodes[k].path, j)]]
       IN  descendants(nodes \o flat([k \in from..Len(nodes) |-> childrenOf(k)],
                                     from, Len(nodes)),
                       Len(nodes) + 1)
\* nodes: the list; kids: each node's children, as places in the list (0 is
\* the parent d3.tree gives the root)
hierarchy(root) ==
  LET nodes == descendants(<<[data |-> root, depth |-> 0, parent |-> 0, i |-> 0,
                                path |-> <<>>]>>, 1)
      count(k) == Cardinality({j \in 1..Len(nodes) : nodes[j].parent = k})
      first(k) == CHOOSE j \in 1..Len(nodes) :
                    nodes[j].parent = k /\ nodes[j].i = 0
      kids == [k \in 0..Len(nodes) |-> [j \in 1..count(k) |-> first(k) + j - 1]]
  IN  Then(kids, [nodes |-> nodes, kids |-> kids])

COMPACT_VERTICAL_NODE_SPACING == 70
\* nodeSize([COMPACT_VERTICAL_NODE_SPACING, 250])
dx == COMPACT_VERTICAL_NODE_SPACING
dy == 250

\* the separation function given to d3.tree, in 1/Scale
separation(a, b) ==
  LET isSameParent == a.parent = b.parent
      maxDepth == Max(a.depth, b.depth)
      minDepth == Min(a.depth, b.depth)
  IN  IF maxDepth <= 2 THEN ((IF isSameParent THEN 13 ELSE 28) * Scale) \div 10
      ELSE IF minDepth <= 2 THEN (IF isSameParent THEN 1 ELSE 2) * Scale
      ELSE ((IF isSameParent THEN 6 ELSE 11) * Scale) \div 10

\* d3-hierarchy tree.js: a TreeNode's fields; t (thread), a (ancestor) and A
\* (default ancestor) are places in the list, Null for none
TreeNode(k) == [z |-> 0, m |-> 0, c |-> 0, s |-> 0, t |-> Null, a |-> k, A |-> Null]

nextLeft(h, T, v) == IF h.kids[v] # <<>> THEN h.kids[v][1] ELSE T[v].t
nextRight(h, T, v) == IF h.kids[v] # <<>> THEN h.kids[v][Len(h.kids[v])] ELSE T[v].t

moveSubtree(h, T, wm, wp, shift) ==
  LET change == shift \div (h.nodes[wp].i - h.nodes[wm].i)
  IN  [T EXCEPT ![wp].c = @ - change, ![wp].s = @ + shift, ![wm].c = @ + change,
                ![wp].z = @ + shift, ![wp].m = @ + shift]

executeShifts(h, T, v) ==
  LET children == h.kids[v]
      RECURSIVE loop(_, _, _, _)
      loop(t, i, shift, change) ==
        IF i < 1 THEN t
        ELSE LET w == children[i]
             IN  loop([t EXCEPT ![w].z = @ + shift, ![w].m = @ + shift], i - 1,
                      shift + t[w].s + (change + t[w].c), change + t[w].c)
  IN  loop(T, Len(children), 0, 0)

nextAncestor(h, T, vim, v, ancestor) ==
  IF h.nodes[T[vim].a].parent = h.nodes[v].parent THEN T[vim].a ELSE ancestor

\* result: [T, ancestor]
apportion(h, T, v, w, ancestor) ==
  LET RECURSIVE while(_)
      \* r: the variables of apportion before the loop's condition is evaluated
      while(r) ==
        LET vim == nextRight(h, r.T, r.vim)
            vip == nextLeft(h, r.T, r.vip)
        IN  IF vim # Null /\ vip # Null
            THEN LET vom == nextLeft(h, r.T, r.vom)
                     vop == nextRight(h, r.T, r.vop)
                     T1  == [r.T EXCEPT ![vop].a = v]
                     shift == T1[vim].z + r.sim - T1[vip].z - r.sip
                                + separation(h.nodes[vim], h.nodes[vip])
                     T2  == IF shift > 0
                            THEN moveSubtree(h, T1, nextAncestor(h, T1, vim, v, r.ancestor),
                                             v, shift)
                            ELSE T1
                     sip == IF shift > 0 THEN r.sip + shift ELSE r.sip
                     sop == IF shift > 0 THEN r.sop + shift ELSE r.sop
                 IN  while([T |-> T2, vim |-> vim, vip |-> vip, vom |-> vom, vop |-> vop,
                            sim |-> r.sim + T2[vim].m, sip |-> sip + T2[vip].m,
                            som |-> r.som + T2[vom].m, sop |-> sop + T2[vop].m,
                            ancestor |-> r.ancestor])
            ELSE LET T1 == IF vim # Null /\ nextRight(h, r.T, r.vop) = Null
                           THEN [r.T EXCEPT ![r.vop].t = vim, ![r.vop].m = @ + r.sim - r.sop]
                           ELSE r.T
                     thread == vip # Null /\ nextLeft(h, T1, r.vom) = Null
                 IN  [T |-> IF thread
                            THEN [T1 EXCEPT ![r.vom].t = vip, ![r.vom].m = @ + r.sip - r.som]
                            ELSE T1,
                      ancestor |-> IF thread THEN v ELSE r.ancestor]
      vom0 == h.kids[h.nodes[v].parent][1]
  IN  IF w # Null
      THEN while([T |-> T, vim |-> w, vip |-> v, vom |-> vom0, vop |-> v,
                  sim |-> T[w].m, sip |-> T[v].m, som |-> T[vom0].m, sop |-> T[v].m,
                  ancestor |-> ancestor])
      ELSE [T |-> T, ancestor |-> ancestor]

firstWalk(h, T, v) ==
  LET children == h.kids[v]
      parent   == h.nodes[v].parent
      siblings == h.kids[parent]
      w  == IF h.nodes[v].i # 0 THEN siblings[h.nodes[v].i] ELSE Null
      T1 == IF children # <<>> THEN executeShifts(h, T, v) ELSE T
      midpoint == (T1[children[1]].z + T1[children[Len(children)]].z) \div 2
      T2 == IF children # <<>>
            THEN IF w # Null
                 THEN [T1 EXCEPT ![v].z = T1[w].z + separation(h.nodes[v], h.nodes[w]),
                                 ![v].m = T1[w].z + separation(h.nodes[v], h.nodes[w])
                                            - midpoint]
                 ELSE [T1 EXCEPT ![v].z = midpoint]
            ELSE IF w # Null
                 THEN [T1 EXCEPT ![v].z = T1[w].z + separation(h.nodes[v], h.nodes[w])]
                 ELSE T1
      r  == apportion(h, T2, v, w, IF T2[parent].A # Null THEN T2[parent].A ELSE siblings[1])
  IN  [r.T EXCEPT ![parent].A = r.ancestor]

\* eachAfter and eachBefore: the order in which the nodes are visited
RECURSIVE eachAfter(_, _)
eachAfter(h, v) ==
  LET children == h.kids[v]
      RECURSIVE each(_)
      each(i) == IF i > Len(children) THEN <<>>
                 ELSE eachAfter(h, children[i]) \o each(i + 1)
  IN  each(1) \o <<v>>
RECURSIVE eachBefore(_, _)
eachBefore(h, v) ==
  LET children == h.kids[v]
      RECURSIVE each(_)
      each(i) == IF i > Len(children) THEN <<>>
                 ELSE eachBefore(h, children[i]) \o each(i + 1)
  IN  <<v>> \o each(1)

\* Faulty sizeNode: the x the node's data holds is added to the new one.
sizeNodeStored(node, x) ==
  [x |-> x * dx + (IF Has(node.data, "x") THEN node.data.x ELSE 0),
   y |-> Px(node.depth * dy)]

\* sizeNode: node.x *= dx; node.y = node.depth * dy
sizeNode(node, x) == [x |-> x * dx, y |-> Px(node.depth * dy)]

\* secondWalk: [T, x], x the position it gives each node
secondWalk(h, r, v) ==
  LET parent == h.nodes[v].parent
  IN  [T |-> [r.T EXCEPT ![v].m = @ + r.T[parent].m],
       x |-> [r.x EXCEPT ![v] = r.T[v].z + r.T[parent].m]]

\* root.eachAfter(firstWalk): the TreeNodes after it
eachAfterFirstWalk(h) ==
  LET n == Len(h.nodes)
      after == eachAfter(h, 1)
      RECURSIVE first(_, _, _)
      \* from the lo-th node visited to the hi-th
      first(T, lo, hi) ==
        IF lo = hi THEN firstWalk(h, T, after[lo])
        ELSE LET half == first(T, lo, (lo + hi) \div 2)
             IN  Then(half, first(half, (lo + hi) \div 2 + 1, hi))
  IN  Then(after, first([k \in 0..n |-> TreeNode(k)], 1, n))

\* root.parent.m = -root.z; root.eachBefore(secondWalk)
eachBeforeSecondWalk(h, T) ==
  LET n == Len(h.nodes)
      before == eachBefore(h, 1)
      RECURSIVE second(_, _, _)
      \* from the lo-th node visited to the hi-th
      second(r, lo, hi) ==
        IF lo = hi THEN secondWalk(h, r, before[lo])
        ELSE LET half == second(r, lo, (lo + hi) \div 2)
             IN  Then(half, second(half, (lo + hi) \div 2 + 1, hi))
  IN  Then(T, Then(before,
           second([T |-> [T EXCEPT ![0].m = -T[1].z], x |-> [k \in 1..n |-> 0]], 1, n)))

\* root.eachBefore(sizeNode)
eachBeforeSizeNode(h, walked) ==
  LET sized == [k \in 1..Len(h.nodes) |-> sizeNode(h.nodes[k], walked.x[k])]
  IN  Then(walked, Then(sized, sized))

\* d3.tree().nodeSize([dx, dy]).separation(separation) applied to the
\* hierarchy: the x and y of every node
treeLayout(h) == eachBeforeSizeNode(h, eachBeforeSecondWalk(h, eachAfterFirstWalk(h)))

(* Text metrics *)

COMPACT_NODE_MIN_WIDTH == 64
COMPACT_NODE_HEIGHT == 20
COMPACT_FONT_MIN == 11
TEXT_NODE_RIGHT_PADDING == 8
TEXT_LEFT_PADDING == 2
MAX_BOX_WIDTH == 440
MIN_BOX_WIDTH == 120
BOX_HORIZONTAL_PADDING == 30
MIN_BOX_HEIGHT == 50
BOX_VERTICAL_PADDING == 24
LINE_HEIGHT == 20
\* the font size of the default preferences
fontSize == 15
\* depth >= 3 ? 80 : Number.MAX_SAFE_INTEGER
maxCharsDeep == 80

\* the length of the symbol of an icon, in UTF-16 units; 0 for '' and for an
\* icon ICON_SYMBOLS does not hold
ICON_SYMBOLS(icon) ==
  CASE icon \in {"idea", "warning", "note"} -> 2
    [] icon \in {"important", "question", "check"} -> 1
    [] OTHER -> 0

\* a text of two words, which takes two lines in a node of depth 3 or more
LongText == "wwwwwwwwwwwwwwwwwwwwwwwwwwwwwwwwwwwwwwwwwwwwwwwwww www"
\* a text of one word, which makes the box of a node wider than MIN_BOX_WIDTH
WideText == "wwwwwwwwwwwwwwwwwwww"
\* a text of eight words, four long ones and four short ones
TallText == LongText \o " " \o LongText \o " " \o LongText \o " " \o LongText

\* text.split(/\s+/).filter(Boolean): the words, each given by its length.
\* Of the texts nodes have here only DefaultText, LongText and TallText hold
\* white space.
split(text) ==
  CASE text = "" -> <<>>
    [] text = DefaultText -> <<3, 4>>
    [] text = LongText -> <<50, 3>>
    [] text = TallText -> <<50, 3, 50, 3, 50, 3, 50, 3>>
    [] OTHER -> <<Len(text)>>

getRenderedFontSize(depth) ==
  IF depth = 0 THEN fontSize + 2
  ELSE IF depth = 1 THEN fontSize + 1
  ELSE IF depth >= 3 THEN Max(fontSize - 2, COMPACT_FONT_MIN)
  ELSE fontSize

\* measureTextWidth of a text of this length, by the width the code takes
\* when the text element has no box: text.length * fontPx * 0.6
measureTextWidth(length, depth) ==
  (length * getRenderedFontSize(depth) * 6 * Scale) \div 10

\* wrapTextForNode of a text given by its words: lines holds the length of
\* each line
wrapTextForNode(words, depth) ==
  LET maxContentWidth == Px(MAX_BOX_WIDTH - BOX_HORIZONTAL_PADDING)
      flushCurrentLine(r) ==
        [r EXCEPT !.lines = Append(@, r.currentLine),
                  !.lineWidths = Append(@, measureTextWidth(r.currentLine, depth)),
                  !.currentLine = 0, !.lineCharCount = 0]
      pushSegment(r, segment) ==
        IF segment = 0 THEN r
        ELSE [r EXCEPT !.lines = Append(@, segment),
                       !.lineWidths = Append(@, measureTextWidth(segment, depth)),
                       !.lineCharCount = 0]
      \* the body of for (const char of word); q: [r, segment]
      char(q) ==
        LET nextSegment == q.segment + 1
            nextWidth   == measureTextWidth(nextSegment, depth)
            exceedsSegmentChars == depth >= 3 /\ nextSegment > maxCharsDeep
        IN  IF (~exceedsSegmentChars /\ nextWidth <= maxContentWidth) \/ q.segment = 0
            THEN [q EXCEPT !.segment = nextSegment]
            ELSE [r |-> pushSegment(q.r, q.segment), segment |-> 1]
      \* for (const char of word), from the lo-th character to the hi-th
      RECURSIVE chars(_, _, _)
      chars(q, lo, hi) ==
        IF lo > hi THEN q
        ELSE IF lo = hi THEN char(q)
        ELSE LET half == chars(q, lo, (lo + hi) \div 2)
             IN  Then(half, chars(half, (lo + hi) \div 2 + 1, hi))
      \* currentLine = segment; lineCharCount = segment.length
      rest(q) == [q.r EXCEPT !.currentLine = q.segment, !.lineCharCount = q.segment]
      forEach(r, word) ==
        LET spaced == r.currentLine > 0
            candidate == IF spaced THEN r.currentLine + 1 + word ELSE word
            candidateWidth == measureTextWidth(candidate, depth)
            spaceAdded == IF spaced THEN 1 ELSE 0
            candidateChars == r.lineCharCount + spaceAdded + word
            exceedsChars == depth >= 3 /\ candidateChars > maxCharsDeep
            allowEmptyOverflow == r.lineCharCount = 0 /\ depth < 3
        IN  IF ~exceedsChars /\ (candidateWidth <= maxContentWidth \/ allowEmptyOverflow)
            THEN [r EXCEPT !.currentLine = candidate, !.lineCharCount = candidateChars]
            ELSE rest(chars([r |-> IF r.currentLine > 0 THEN flushCurrentLine(r) ELSE r,
                             segment |-> 0], 1, word))
      RECURSIVE each(_, _)
      each(r, i) == IF i > Len(words) THEN r
                    ELSE LET next == forEach(r, words[i])
                         IN  Then(next, each(next, i + 1))
      \* if (currentLine) flushCurrentLine()
      flushed(r) == IF r.currentLine > 0 THEN flushCurrentLine(r) ELSE r
      RECURSIVE max(_, _)
      max(widths, i) == IF i > Len(widths) THEN 0 ELSE Max(widths[i], max(widths, i + 1))
      result(r) == [lines |-> r.lines, maxLineWidth |-> max(r.lineWidths, 1)]
  IN  IF Len(words) = 0 THEN [lines |-> <<0>>, maxLineWidth |-> 0]
      ELSE result(flushed(each([lines |-> <<>>, lineWidths |-> <<>>, currentLine |-> 0,
                                lineCharCount |-> 0], 1)))

\* displayText, the text with the symbol of the icon before it, as words
displayText(node) ==
  LET iconSymbol == IF Has(node.data, "icon") THEN ICON_SYMBOLS(node.data.icon) ELSE 0
      baseText == IF Has(node.data, "text") THEN split(node.data.text) ELSE <<>>
  IN  IF iconSymbol # 0 THEN <<iconSymbol>> \o baseText ELSE baseText

\* the entry of metricsMap for a node of the hierarchy whose text wrapped so
nodeMetrics(node, wrapped) ==
  LET layoutWidth == Max(wrapped.maxLineWidth + Px(TEXT_NODE_RIGHT_PADDING),
                         Px(COMPACT_NODE_MIN_WIDTH))
      lineSpacing == Max(COMPACT_NODE_HEIGHT, getRenderedFontSize(node.depth) + 4)
      textHeight == Max(COMPACT_NODE_HEIGHT, Len(wrapped.lines) * lineSpacing)
      paddedWidth == Max(Px(MIN_BOX_WIDTH),
                         Min(Px(MAX_BOX_WIDTH),
                             wrapped.maxLineWidth + Px(BOX_HORIZONTAL_PADDING)))
      boxHeight == Max(MIN_BOX_HEIGHT, Len(wrapped.lines) * LINE_HEIGHT + BOX_VERTICAL_PADDING)
  IN  IF node.depth >= 3
      THEN [boxWidth |-> layoutWidth, boxHeight |-> Px(textHeight),
            hitWidth |-> Max(layoutWidth + Px(6), Px(COMPACT_NODE_MIN_WIDTH)),
            layoutWidth |-> layoutWidth, lines |-> wrapped.lines]
      ELSE [boxWidth |-> paddedWidth, boxHeight |-> Px(boxHeight),
            hitWidth |-> paddedWidth, layoutWidth |-> paddedWidth, lines |-> wrapped.lines]

metrics(node) == nodeMetrics(node, wrapTextForNode(displayText(node), node.depth))

\* nodes.forEach(node => metricsMap.set(node.data.id, ...)), by the place of
\* the node in the list
metricsMap(h) == [k \in 1..Len(h.nodes) |-> metrics(h.nodes[k])]

(* Placement *)

AUTO_LAYOUT_HORIZONTAL_GAP == 80
TEXT_NODE_HORIZONTAL_GAP == 24
VERTICAL_PADDING == 8
MAX_ITERATIONS == 10

\* h: the hierarchy; M: the metrics of its nodes; P: their x and y; a node is
\* given by its place in h.nodes
getRightExtent(h, M, node) ==
  IF h.nodes[node].depth >= 3 THEN M[node].layoutWidth ELSE M[node].boxWidth \div 2
getLeftExtent(h, M, node) ==
  IF h.nodes[node].depth >= 3 THEN Px(TEXT_LEFT_PADDING) ELSE M[node].boxWidth \div 2
getRightEdge(h, M, P, node) == P[node].y + getRightExtent(h, M, node)
getLeftEdge(h, M, P, node) == P[node].y - getLeftExtent(h, M, node)

\* assignHorizontalPositions(rootNode): every node but the root gets its y
\* from its parent's, after the parent has got its own; the nodes are taken
\* in the order of the list, in which a parent comes before its children
assignHorizontalPositions(h, M, P) ==
  LET assign(p, childNode) ==
        LET node == h.nodes[childNode].parent
            gap == Px(IF h.nodes[node].depth >= 3 THEN TEXT_NODE_HORIZONTAL_GAP
                      ELSE AUTO_LAYOUT_HORIZONTAL_GAP)
            childBaseLeft == getRightEdge(h, M, p, node) + gap
            leftExtent == getLeftExtent(h, M, childNode)
        IN  [p EXCEPT ![childNode].y = childBaseLeft + leftExtent]
      RECURSIVE forEach(_, _, _)
      forEach(p, lo, hi) ==
        IF lo = hi THEN assign(p, lo)
        ELSE LET half == forEach(p, lo, (lo + hi) \div 2)
             IN  Then(half, forEach(half, (lo + hi) \div 2 + 1, hi))
  IN  IF Len(h.nodes) < 2 THEN P ELSE forEach(P, 2, Len(h.nodes))

\* getDescendants: the nodes below a node are those whose path starts with
\* the path of the node
getDescendants(h, node) ==
  LET path == h.nodes[node].path
  IN  {k \in 1..Len(h.nodes) :
         /\ Len(h.nodes[k].path) > Len(path)
         /\ SubSeq(h.nodes[k].path, 1, Len(path)) = path}

\* Faulty moveNodeAndDescendants: the nodes below the node stay where they are.
moveNodeOnly(h, P, node, deltaX) ==
  [k \in DOMAIN P |-> IF k = node THEN [P[k] EXCEPT !.x = @ + deltaX] ELSE P[k]]

moveNodeAndDescendants(h, P, node, deltaX) ==
  LET below == getDescendants(h, node)
      moved == [k \in DOMAIN P |->
                  IF k = node \/ k \in below
                  THEN [P[k] EXCEPT !.x = @ + deltaX] ELSE P[k]]
  IN  Then(moved, moved)

\* getLowestDescendant, getHighestDescendant: the recursion over
\* node.children takes the greatest bottom, and the least top, of the node
\* and the nodes below it
getLowestDescendant(h, M, P, node) ==
  LET bottoms == {P[k].x + M[k].boxHeight \div 2 : k \in {node} \cup getDescendants(h, node)}
  IN  CHOOSE lowest \in bottoms : \A bottom \in bottoms : bottom <= lowest

getHighestDescendant(h, M, P, node) ==
  LET tops == {P[k].x - M[k].boxHeight \div 2 : k \in {node} \cup getDescendants(h, node)}
  IN  CHOOSE highest \in tops : \A top \in tops : top >= highest

\* siblings.sort((a, b) => a.x - b.x): a stable sort
RECURSIVE sort(_, _)
sort(P, siblings) ==
  IF siblings = <<>> THEN <<>>
  ELSE LET i == CHOOSE i \in 1..Len(siblings) :
                  \A j \in 1..Len(siblings) :
                    \/ P[siblings[i]].x < P[siblings[j]].x
                    \/ P[siblings[i]].x = P[siblings[j]].x /\ i <= j
       IN  <<siblings[i]>>
             \o sort(P, [j \in 1..Len(siblings) - 1 |->
                           IF j < i THEN siblings[j] ELSE siblings[j + 1]])

\* one pass over the groups of siblings, in the order nodesByParent holds
\* them: [P, hadAdjustment, shifts], shifts being the calls of
\* moveNodeAndDescendants the pass made, each with the positions it left
adjustSiblings(h, M, P) ==
  LET shifted(r, currentSibling, previousSibling, overlap, moved) ==
        [P |-> moved, hadAdjustment |-> TRUE,
         shifts |-> Append(r.shifts,
                      [node |-> currentSibling, previous |-> previousSibling,
                       deltaX |-> overlap, P |-> moved])]
      \* the body of the loop over the siblings of one parent
      body(r, currentSibling, previousSibling, previousLowest, currentTop) ==
        LET requiredGap == Px(VERTICAL_PADDING)
            overlap     == previousLowest + requiredGap - currentTop
        IN  IF overlap > 0
            THEN shifted(r, currentSibling, previousSibling, overlap,
                         moveNodeAndDescendants(h, r.P, currentSibling, overlap))
            ELSE r
      \* the siblings of one parent, from the second one on
      RECURSIVE for(_, _, _)
      for(r, siblings, i) ==
        IF i > Len(siblings) THEN r
        ELSE LET next == body(r, siblings[i], siblings[i - 1],
                              getLowestDescendant(h, M, r.P, siblings[i - 1]),
                              getHighestDescendant(h, M, r.P, siblings[i]))
             IN  Then(next, for(next, siblings, i + 1))
      RECURSIVE forEach(_, _, _)
      \* nodesByParent.forEach, from the lo-th node's children to the hi-th's
      forEach(r, lo, hi) ==
        IF lo = hi THEN for(r, sort(r.P, h.kids[lo]), 2)
        ELSE LET half == forEach(r, lo, (lo + hi) \div 2)
             IN  Then(half, forEach(half, (lo + hi) \div 2 + 1, hi))
  IN  forEach([P |-> P, hadAdjustment |-> FALSE, shifts |-> <<>>], 1, Len(h.nodes))

\* the loop of resolveCollisions, from iteration lo to iteration hi; breaks:
\* the loop is left after a pass without adjustment.  The result is
\* [P, hadAdjustment, before, passes]: the positions the loop leaves and
\* those it found, and for each pass that ran what adjustSiblings returned
\* and the shifts it made
iterations(h, M, P, breaks) ==
  LET pass(r, a) ==
        [P |-> a.P, hadAdjustment |-> a.hadAdjustment, before |-> r.before,
         passes |-> Append(r.passes,
                      [hadAdjustment |-> a.hadAdjustment, shifts |-> a.shifts])]
      RECURSIVE for(_, _, _)
      for(r, lo, hi) ==
        IF lo = hi
        THEN IF r.hadAdjustment \/ ~breaks THEN pass(r, adjustSiblings(h, M, r.P)) ELSE r
        ELSE LET half == for(r, lo, (lo + hi) \div 2)
             IN  Then(half, for(half, (lo + hi) \div 2 + 1, hi))
  IN  for([P |-> P, hadAdjustment |-> TRUE, before |-> P, passes |-> <<>>],
          0, MAX_ITERATIONS - 1)

\* Faulty resolveCollisions: "if (!hadAdjustment) break" is missing.
resolveCollisionsNoBreak(h, M, P) == iterations(h, M, P, FALSE)

resolveCollisions(h, M, P) == iterations(h, M, P, TRUE)

\* nodes.some(node => node.data.manualPosition)
hasManualPositions(nodes) ==
  \E k \in 1..Len(nodes) :
    Has(nodes[k].data, "manualPosition") /\ nodes[k].data.manualPosition

\* the record d with x and y set
setPosition(d, x, y) ==
  [f \in DOMAIN d \cup {"x", "y"} |-> IF f = "x" THEN x ELSE IF f = "y" THEN y ELSE d[f]]

\* if (!hasManualPositions && nodes.length > 0): rootNode.y = 0,
\* assignHorizontalPositions(rootNode), resolveCollisions(); the result is
\* that of the loop
autoLayout(h, M, treeData) ==
  resolveCollisions(h, M, assignHorizontalPositions(h, M, [treeData EXCEPT ![1].y = 0]))

\* the last nodes.forEach of the effect, which gives each node its place or
\* writes the place into its data; P: the x and y of the nodes before it.
\* nodes: each node of the hierarchy with the x and y it is drawn at and its
\* metrics, x0 the x d3.tree gave it and stored the x and y its data held
\* before; root: the tree as the effect leaves it
place(root, h, M, treeData, P) ==
  LET n == Len(h.nodes)
      stored(k) == Has(h.nodes[k].data, "x") /\ Has(h.nodes[k].data, "y")
      \* the position of the node is taken from its data
      reads(k) ==
        \/ Has(h.nodes[k].data, "manualPosition") /\ h.nodes[k].data.manualPosition
             /\ stored(k)
        \/ hasManualPositions(h.nodes) /\ stored(k)
      RECURSIVE forEach(_, _, _)
      \* from the lo-th node to the hi-th
      forEach(tree, lo, hi) ==
        IF lo = hi
        THEN IF reads(lo) THEN tree
             ELSE replaceAt(tree, h.nodes[lo].path,
                            setPosition(nodeAt(tree, h.nodes[lo].path), P[lo].x, P[lo].y))
        ELSE LET half == forEach(tree, lo, (lo + hi) \div 2)
             IN  Then(half, forEach(half, (lo + hi) \div 2 + 1, hi))
  IN  [nodes |-> [k \in 1..n |->
                    [id |-> IF Has(h.nodes[k].data, "id") THEN h.nodes[k].data.id ELSE Null,
                     depth |-> h.nodes[k].depth, parent |-> h.nodes[k].parent,
                     x |-> IF reads(k) THEN h.nodes[k].data.x ELSE P[k].x,
                     y |-> IF reads(k) THEN h.nodes[k].data.y ELSE P[k].y,
                     x0 |-> treeData[k].x,
                     stored |-> IF stored(k)
                                THEN <<h.nodes[k].data.x, h.nodes[k].data.y>> ELSE <<>>,
                     boxWidth |-> M[k].boxWidth, boxHeight |-> M[k].boxHeight,
                     layoutWidth |-> M[k].layoutWidth]],
       root  |-> forEach(root, 1, n)]

\* the effect from the metrics and the tree layout on: auto, the automatic
\* layout ran; before and passes, what resolveCollisions found and did
positions(root, h, M, treeData) ==
  LET auto == ~hasManualPositions(h.nodes) /\ Len(h.nodes) > 0
      placed(P) == Then(P, [place(root, h, M, treeData, P) EXCEPT !.root = Then(@, @)])
      done(r, c) == [nodes |-> r.nodes, root |-> r.root, auto |-> auto,
                     before |-> c.before, passes |-> c.passes]
      run(c) == Then(c, done(placed(c.P), c))
  IN  Then(h, Then(M, Then(treeData,
        run(IF auto THEN autoLayout(h, M, treeData)
            ELSE [P |-> treeData, before |-> treeData, passes |-> <<>>]))))

\* The render effect of MindMap on a tree
layout(root) == positions(root, hierarchy(root), metricsMap(hierarchy(root)),
                          treeLayout(hierarchy(root)))

----------------------------------------------------------------------------
(* SpecWrap: wrapTextForNode, called with texts of up to MaxWords words, each
   given by its length, for nodes of depth 0 to 3 *)

\* the lengths of the words: a character, a short word, the shortest words
\* that do not fit a line at depth 1 and at depth 3, and a word of more than
\* maxCharsDeep characters
ArgWordLengths == {1, 3, 43, 53, 90}
ArgDepths == {0, 1, 2, 3}
RECURSIVE WordLists(_)
WordLists(n) ==
  IF n = 0 THEN {<<>>}
  ELSE WordLists(n - 1)
         \cup {Append(words, w) : words \in {l \in WordLists(n - 1) : Len(l) = n - 1},
                                  w \in ArgWordLengths}

WrapText ==
  \E words \in WordLists(MaxWords), depth \in ArgDepths :
    /\ last' = [Op("wrapTextForNode", depth) EXCEPT
                  !.more = words, !.ret = wrapTextForNode(words, depth)]
    /\ UNCHANGED <<state, editingNodeId, currentFilePath, nextUuid, ur, drag, press,
                   editTimers, dialogs>>

NextWrap == WrapText

SpecWrap == Init /\ [][NextWrap]_vars

----------------------------------------------------------------------------
(* SpecLayout: documents that are loaded, folded, dragged and clicked, each
   step followed by the render effect, which lays the tree out and writes
   the positions into the nodes *)

LeafNode(id, text, depth) ==
  [id |-> id, text |-> text, x |-> 0, y |-> 0, color |-> getColorForDepth(depth),
   children |-> <<>>, collapsed |-> FALSE, icon |-> "none", manualPosition |-> FALSE]

\* a node with three children and a sibling after it
ForkDoc ==
  [LeafNode(401, "Fork", 0) EXCEPT
     !.children = << [LeafNode(402, "A", 1) EXCEPT
                        !.children = <<LeafNode(404, "w", 2), LeafNode(405, "w", 2),
                                       LeafNode(406, "w", 2)>>],
                     LeafNode(403, "B", 1) >>]

\* a document in which every node on the way down has a leaf as its second
\* child; SpineIds: the ids of the nodes on the way down, the root first;
\* Spine(depth): the node at this depth and what is below it
SpineIds == <<500, 501, 502, 503, 504, 505, 506, 507, 508, 509, 510, 511>>
RECURSIVE Spine(_)
Spine(depth) ==
  [LeafNode(SpineIds[depth + 1], "w", depth) EXCEPT
     !.children =
       IF depth + 1 = Len(SpineIds)
       THEN <<LeafNode(700, "w", depth + 1), LeafNode(701, LongText, depth + 1)>>
       ELSE <<Spine(depth + 1),
              LeafNode(600 + depth, IF depth = 0 THEN WideText ELSE "w", depth + 1)>>]
DeepDoc == Spine(0)

\* a leaf with a text of eight lines, and after it a node with two children
TwinDoc ==
  [LeafNode(801, "Twin", 0) EXCEPT
     !.children = << LeafNode(802, TallText, 1),
                     [LeafNode(803, "B", 1) EXCEPT
                        !.children = <<LeafNode(807, "w", 2), LeafNode(808, "w", 2)>>] >>]

LayoutDocs == {ForkDoc, DeepDoc, TwinDoc}
\* the nodes that are clicked, the nodes that are folded and unfolded, the
\* nodes that are dragged, and where they are dropped, in units of 1/Scale px
ArgClickIds == NodeIdsOf(ForkDoc)
ArgFoldIds == {402}
ArgDragIds == {402, 404}
ArgLayoutPositions == {<<Px(300), Px(40)>>}

\* the nodes MindMap draws: those of the hierarchy
drawnIds(root) == {n.id : n \in hierarchyNodes(root)}

\* The store is in state st after an operation, and MindMap's effect runs:
\* it draws the tree and writes the positions into the nodes of st.root; g is
\* what the effect computes for st.root
Rendered(st, editing, path, op, g) ==
  /\ state' = [st EXCEPT !.root = g.root]
  /\ editingNodeId' = editing
  /\ currentFilePath' = path
  /\ last' = [op EXCEPT !.geo = [nodes |-> g.nodes, auto |-> g.auto,
                                 before |-> g.before, passes |-> g.passes]]
  /\ ur' = Free
  /\ drag' = MindMapEffect(drag, state, editingNodeId, st, editing)
  /\ press' = NoPress
  /\ UNCHANGED <<nextUuid, editTimers, dialogs>>

RenderCall(st, editing, path, op) == Rendered(st, editing, path, op, layout(st.root))

LayLoad ==
  \E doc \in LayoutDocs :
    LET r == applyLoadedMindMap(state, currentFilePath, doc, DocPath)
    IN  RenderCall(r.state, r.editingNodeId, r.currentFilePath, Op("load", doc.id))

\* a click on a node that is not the selected one: selectedNodeId changes,
\* and the effect runs again on the same tree
LayNodeClick ==
  \E nodeId \in (drawnIds(state.root) \cap ArgClickIds) \ {state.selectedNodeId} :
    RenderCall(handleNodeClick(state, nodeId), Null, currentFilePath,
               Op("handleNodeClick", nodeId))

LayToggleNodeCollapse ==
  \E nodeId \in drawnIds(state.root) \cap ArgFoldIds :
    /\ MayPushDoc
    /\ RenderCall(toggleNodeCollapse(state, nodeId), editingNodeId, currentFilePath,
                  Op("toggleNodeCollapse", nodeId))

\* the end of a drag of a node
LayUpdateNodePosition ==
  \E nodeId \in drawnIds(state.root) \cap ArgDragIds, pos \in ArgLayoutPositions :
    /\ ManualCount(state.root) < MaxManual
    /\ RenderCall(updateNodePosition(state, nodeId, pos[1], pos[2]), editingNodeId,
                  currentFilePath,
                  [Op("updateNodePosition", nodeId) EXCEPT !.more = <<pos[1], pos[2]>>])

LayResetAllPositions ==
  RenderCall(resetAllPositions(state, InnerWidth, InnerHeight - 64), editingNodeId,
             currentFilePath,
             [Op("resetAllPositions", Null) EXCEPT
                !.more = <<state.zoom, ManualCount(state.root)>>])

NextLayout ==
  \/ LayLoad
  \/ LayNodeClick
  \/ LayToggleNodeCollapse
  \/ LayUpdateNodePosition
  \/ LayResetAllPositions

SpecLayout == Init /\ [][NextLayout]_vars

----------------------------------------------------------------------------
(* Properties *)

\* the Tree Store operations that push a history snapshot when they succeed
PushOps ==
  {"addNode", "addSiblingNode", "deleteNode", "updateNodeText", "updateNodeColor",
   "updateNodeIcon", "toggleNodeCollapse", "setNodeCollapsed", "collapseAll", "expandAll"}
\* the Tree Store mutations that take a node id
IdOps ==
  {"addNode", "addSiblingNode", "deleteNode", "updateNodeText", "updateNodeColor",
   "updateNodeIcon", "toggleNodeCollapse", "setNodeCollapsed", "updateNodePosition"}

\* the step from the unprimed state is a successful history-pushing mutation
PushStep ==
  /\ last'.op \in PushOps
  /\ \/ last'.op \in {"collapseAll", "expandAll"}
     \/ last'.hit /\ (last'.op = "deleteNode" => last'.arg # state.root.id)

\* the history after one snapshot of the new live tree has been pushed at the
\* current index of the old one
OnePushed ==
  LET kept == SubSeq(state.history, 1, state.historyIndex + 1)
  IN  (IF Len(kept) = MAX_HISTORY THEN Tail(kept) ELSE kept) \o <<state'.root>>

C2_HistoryBounds ==
  /\ Len(state.history) >= 1
  /\ Len(state.history) <= MAX_HISTORY
  /\ state.historyIndex >= 0
  /\ state.historyIndex <= Len(state.history) - 1

\* the initial document's history is full and has lost its first snapshot
C2_Witness ==
  /\ Len(state.history) = MAX_HISTORY
  /\ state.history[1].id = 1
  /\ state.history[1].collapsed

\* C3: with MAX_HISTORY snapshots and historyIndex at the last one, a
\* history-pushing mutation drops exactly the oldest snapshot, keeps the
\* others in order, appends the new snapshot, and leaves historyIndex at
\* MAX_HISTORY - 1, on the new snapshot.
C3_PushAtCapacity ==
  [][(/\ Len(state.history) = MAX_HISTORY
      /\ state.historyIndex = MAX_HISTORY - 1
      /\ PushStep)
     => /\ state'.history = Tail(state.history) \o <<state'.root>>
        /\ Len(state'.history) = MAX_HISTORY
        /\ state'.historyIndex = MAX_HISTORY - 1
        /\ state'.history[state'.historyIndex + 1] = state'.root]_vars

\* a loaded document's history is full and has lost its first snapshot
C3_Witness ==
  /\ last.op = "toggleNodeCollapse"
  /\ Len(state.history) = MAX_HISTORY
  /\ state.historyIndex = MAX_HISTORY - 1
  /\ state.history[1].id = 101
  /\ ~state.history[1].collapsed

RECURSIVE Nodes(_)
Nodes(node) == {node} \cup UNION {Nodes(node.children[i]) : i \in 1..Len(node.children)}
NodeById(root, id) == CHOOSE n \in Nodes(root) : n.id = id
Data(n) == [f \in DOMAIN n \ {"children"} |-> n[f]]
ChildIds(n) == [i \in 1..Len(n.children) |-> n.children[i].id]
ParentIdOf(root, id) ==
  (CHOOSE p \in Nodes(root) : \E i \in 1..Len(p.children) : p.children[i].id = id).id
RECURSIVE DepthOf(_, _)
DepthOf(root, id) == IF id = root.id THEN 0 ELSE 1 + DepthOf(root, ParentIdOf(root, id))
Without(ids, id) == SelectSeq(ids, LAMBDA c : c # id)

\* C6: deleteNode called with the root's id changes neither the live tree,
\* nor the selection, nor the history, nor historyIndex; and no Tree Store
\* operation gives the live tree another root.
C6_RootUndeletable ==
  [][/\ (last'.op = "deleteNode" /\ last'.arg = state.root.id) => state' = state
     /\ last'.op \notin {"handleNew", "load"}
          => /\ state'.root.id = state.root.id
             /\ \A i \in 1..Len(state'.history) : state'.history[i].id = state.root.id]_vars

\* deleteNode(root id) was called on a tree with children, another node selected
C6_Witness ==
  /\ last.op = "deleteNode" /\ last.arg = state.root.id
  /\ Len(state.history) = 2
  /\ state.root.children # <<>>
  /\ state.selectedNodeId # state.root.id

C8_AddThenDelete ==
  (last.op = "deleteNode" /\ last.par # Null)
    => KidsOf(state.root, last.par) = last.kids

\* the parent had a child before the addNode
C8_Witness ==
  /\ last.op = "deleteNode" /\ last.par = 201
  /\ last.kids # <<>>
  /\ Len(last.kids[1]) = 1
  /\ Len(state.history) = 3

\* what C9 says of addNode but for the history
AddNodeBuilds ==
  LET pid    == last'.arg
      new    == last'.ret
      before == NodeById(state.root, pid)
      after  == NodeById(state'.root, pid)
      depth  == DepthOf(state.root, pid) + 1
  IN  /\ new # Null
      /\ new \notin NodeIdsOf(state.root)
      /\ \A i \in 1..Len(state.history) : new \notin NodeIdsOf(state.history[i])
      /\ Len(after.children) = Len(before.children) + 1
      /\ SubSeq(after.children, 1, Len(before.children)) = before.children
      /\ LET node == after.children[Len(after.children)]
         IN  /\ node.id = new
             /\ node.color = LEVEL_COLORS[(IF depth < 3 THEN depth ELSE 3) + 1]
             /\ node.children = <<>>
      /\ ~after.collapsed
      /\ state'.selectedNodeId = new

\* C9 as stated: addNode on an existing parent returns a fresh id, appends
\* the new node as the parent's last child with colour
\* LEVEL_COLORS[min(parentDepth + 1, 3)], expands the parent, selects the new
\* node, and increases the history length by exactly one.
C9_AsStated ==
  [][(last'.op = "addNode" /\ last'.hit)
     => /\ AddNodeBuilds
        /\ Len(state'.history) = Len(state.history) + 1]_vars

\* C9, amended: the same, but for the history: it becomes the snapshots up to
\* the current index followed by one snapshot of the new tree (without the
\* oldest when that makes more than MAX_HISTORY), so its length grows by
\* exactly one when the index was the last one and the history not full, and
\* from 1 to 2 on an empty document.
C9_AddNode ==
  [][(last'.op = "addNode" /\ last'.hit)
     => /\ AddNodeBuilds
        /\ state'.history = OnePushed
        /\ (state.historyIndex = Len(state.history) - 1 /\ Len(state.history) < MAX_HISTORY)
             => Len(state'.history) = Len(state.history) + 1]_vars

\* a node was added at depth 4, under a parent at depth 3 that had no
\* children field in the file
C9_Witness ==
  /\ last.op = "addNode" /\ last.arg = 106 /\ last.ret # Null
  /\ DepthOf(state.root, last.ret) = 4
  /\ state.selectedNodeId = last.ret
  /\ Len(state.history) = 2

\* C10: a Tree Store mutation called with an id that no node of the live tree
\* has leaves the live tree, the selection, the history and historyIndex as
\* they were.
C10_AbsentIdNoOp ==
  [][(last'.op \in IdOps /\ ~last'.hit) => state' = state]_vars

\* updateNodeText was called with an absent id on an edited document, after undo()
C10_Witness ==
  /\ last.op = "updateNodeText" /\ ~last.hit /\ last.arg \in AbsentIds
  /\ last.cut = 1
  /\ Len(state.history) = 2
  /\ state.root # state.history[1]

\* the (1-based) place of an id in a sequence of distinct ids
PlaceOf(ids, id) == CHOOSE i \in 1..Len(ids) : ids[i] = id

\* C11: addSiblingNode on a node X other than the root, at index i of its
\* parent's children, inserts the new node at index i + 1, the other children
\* keeping their order, gives it the colour of X's depth, selects it and
\* pushes one snapshot; addSiblingNode on the root does what addNode on the
\* root does: the new node becomes the root's last child, with the colour of
\* depth 1, and the root is expanded.
C11_AddSiblingNode ==
  [][(last'.op = "addSiblingNode" /\ last'.hit)
     => LET x   == last'.arg
            new == last'.ret
        IN  /\ new # Null
            /\ new \notin NodeIdsOf(state.root)
            /\ NodeIdsOf(state'.root) = NodeIdsOf(state.root) \cup {new}
            /\ state'.selectedNodeId = new
            /\ state'.history = OnePushed
            /\ state'.historyIndex = Len(state'.history) - 1
            /\ NodeById(state'.root, new).children = <<>>
            /\ IF x = state.root.id
               THEN /\ AddNodeBuilds
                    /\ \A k \in NodeIdsOf(state.root) \ {x} :
                         NodeById(state'.root, k) = NodeById(state.root, k)
                    /\ [Data(state'.root) EXCEPT !.collapsed = TRUE]
                         = [Data(state.root) EXCEPT !.collapsed = TRUE]
               ELSE LET pid    == ParentIdOf(state.root, x)
                        before == ChildIds(NodeById(state.root, pid))
                        i      == PlaceOf(before, x)
                        depth  == DepthOf(state.root, x)
                    IN  /\ ChildIds(NodeById(state'.root, pid))
                             = SubSeq(before, 1, i) \o <<new>> \o SubSeq(before, i + 1, Len(before))
                        /\ NodeById(state'.root, new).color
                             = LEVEL_COLORS[(IF depth < 3 THEN depth ELSE 3) + 1]
                        /\ \A k \in NodeIdsOf(state.root) :
                             /\ Data(NodeById(state'.root, k)) = Data(NodeById(state.root, k))
                             /\ k # pid => ChildIds(NodeById(state'.root, k))
                                             = ChildIds(NodeById(state.root, k))]_vars

\* the new node stands at index 2 (from 0), after the second of three children
C11_Witness ==
  /\ last.op = "addSiblingNode" /\ last.arg = 103 /\ last.ret # Null
  /\ ChildIds(state.root) = <<102, 103, last.ret, 104>>
  /\ state.selectedNodeId = last.ret

\* C12: setNodeCollapsed(nodeId, true, deep = true) leaves collapsed = true
\* on the node and on each of its descendants and changes the flag of no
\* other node; collapseAll() leaves collapsed = true on every node but the
\* root and collapsed = false on the root, whatever its flag was.
C12_DeepCollapse ==
  [][/\ (last'.op = "setNodeCollapsed" /\ last'.hit /\ last'.more = <<TRUE, TRUE>>)
          => LET under == NodeIdsOf(NodeById(state.root, last'.arg))
             IN  \A k \in NodeIdsOf(state'.root) :
                   NodeById(state'.root, k).collapsed
                     = (k \in under \/ NodeById(state.root, k).collapsed)
     /\ last'.op = "collapseAll"
          => \A k \in NodeIdsOf(state'.root) :
               NodeById(state'.root, k).collapsed = (k # state'.root.id)]_vars

\* a node with a child and a grandchild was collapsed deep, its siblings were not
C12_Witness ==
  /\ last.op = "setNodeCollapsed" /\ last.arg = 102 /\ last.more = <<TRUE, TRUE>>
  /\ NodeById(state.root, 105).collapsed
  /\ NodeById(state.root, 106).collapsed
  /\ ~NodeById(state.root, 103).collapsed

\* a tree with every collapsed flag cleared
RECURSIVE Unfolded(_)
Unfolded(node) ==
  [node EXCEPT !.collapsed = FALSE,
               !.children = [i \in 1..Len(node.children) |-> Unfolded(node.children[i])]]

C15_UpdateNodePosition ==
  [][(last'.op = "updateNodePosition" /\ last'.hit)
     => LET id == last'.arg
        IN  /\ NodeIdsOf(state'.root) = NodeIdsOf(state.root)
            /\ \A k \in NodeIdsOf(state.root) :
                 /\ ChildIds(NodeById(state'.root, k)) = ChildIds(NodeById(state.root, k))
                 /\ Data(NodeById(state'.root, k))
                      = IF k = id
                        THEN [Data(NodeById(state.root, k)) EXCEPT
                                !.x = last'.more[1], !.y = last'.more[2],
                                !.manualPosition = TRUE]
                        ELSE Data(NodeById(state.root, k))
            /\ state'.history = state.history
            /\ state'.historyIndex = state.historyIndex
            /\ state'.selectedNodeId = state.selectedNodeId]_vars

\* a node below the root was dragged after an edit that was then undone
C15_Witness ==
  /\ last.op = "updateNodePosition" /\ last.arg = 105 /\ last.cut = 1
  /\ NodeById(state.root, 105).x = 50
  /\ NodeById(state.root, 105).y = -10
  /\ NodeById(state.root, 105).manualPosition
  /\ ~NodeById(state.root, 102).manualPosition

\* the proper ancestors of a node, by its parents
RECURSIVE AncestorsOf(_, _)
AncestorsOf(root, id) ==
  IF id = root.id THEN {}
  ELSE LET p == ParentIdOf(root, id) IN {p} \cup AncestorsOf(root, p)

\* the nodes none of whose proper ancestors is collapsed
ShownIds(root) ==
  {k \in NodeIdsOf(root) : \A a \in AncestorsOf(root, k) : ~NodeById(root, a).collapsed}

\* the place of a node among its parent's children
BirthOf(root, id) == PlaceOf(ChildIds(NodeById(root, ParentIdOf(root, id))), id)

\* a comes before b in the pre-order traversal: a is an ancestor of b, or,
\* below the deepest node above both, a's branch is an earlier child
ComesBefore(root, a, b) ==
  \/ a \in AncestorsOf(root, b)
  \/ /\ b \notin AncestorsOf(root, a)
     /\ \E u \in (AncestorsOf(root, a) \cup {a}) \ {root.id},
           v \in (AncestorsOf(root, b) \cup {b}) \ {root.id} :
          /\ ParentIdOf(root, u) = ParentIdOf(root, v)
          /\ BirthOf(root, u) < BirthOf(root, v)

\* C14: the visible node list is the pre-order traversal of the live tree
\* that does not descend below a collapsed node: it holds each node without
\* a collapsed ancestor once, in pre-order, and no descendant of a collapsed
\* node; the same nodes are the ones given to the layout; findNodeById
\* still finds every node of the tree.
C14_VisibleNodes ==
  LET visible == getVisibleNodes(state.root)
      ids     == [i \in 1..Len(visible) |-> visible[i].id]
  IN  /\ {ids[i] : i \in 1..Len(ids)} = ShownIds(state.root)
      /\ Len(ids) = Cardinality(ShownIds(state.root))
      /\ \A i, j \in 1..Len(ids) : i < j => ComesBefore(state.root, ids[i], ids[j])
      /\ \A i \in 1..Len(ids) : visible[i] = NodeById(state.root, ids[i])
      /\ {n.id : n \in hierarchyNodes(state.root)} = ShownIds(state.root)
      /\ \A k \in NodeIdsOf(state.root) :
           /\ findNodeById(state.root, k) # <<>>
           /\ nodeAt(state.root, findNodeById(state.root, k)[1]) = NodeById(state.root, k)

\* the root was expanded; a collapsed grandchild is listed, its child is not
C14_Witness ==
  /\ last.op = "toggleNodeCollapse" /\ last.arg = 101
  /\ NodeIdsOf(state.root) = {101, 102, 103, 104, 105, 106}
  /\ NodeById(state.root, 105).collapsed
  /\ Len(getVisibleNodes(state.root)) = 5
  /\ getVisibleNodes(state.root)[3].id = 105
  /\ getVisibleNodes(state.root)[4].id = 103

----------------------------------------------------------------------------
(* The pointer *)

\* the node the press is on, as it was at the press and as it is now
PressedBefore == NodeById(press.root, press.node)
PressedNow == NodeById(state.root, press.node)
\* the step just taken released a press
Released == last.op = "pointerUp" /\ press.node # Null

\* C17: when a press that reached Dragging is released, the node's stored
\* coordinates are its coordinates before the drag plus the total pointer
\* delta since the press (the horizontal delta on y, the vertical one on x),
\* its manualPosition is true, and the history is as long as at the press.
C17_DragAddsTotalDelta ==
  (Released /\ press.reached) =>
    /\ PressedNow.x = PressedBefore.x + press.sum[2]
    /\ PressedNow.y = PressedBefore.y + press.sum[1]
    /\ PressedNow.manualPosition
    /\ Len(state.history) = press.histLen

\* node 1, at <<0, 0>>, was pressed, the pointer moved by <<6, -8>> before the
\* drag began and by <<6, -8>> again, and the release stored the second move
C17_Shortfall ==
  /\ Released /\ press.reached /\ press.node = 1
  /\ press.moves = 2 /\ press.sum = <<12, -16>>
  /\ PressedBefore.x = 0 /\ PressedBefore.y = 0
  /\ PressedNow.x = -8 /\ PressedNow.y = 6
  /\ PressedNow.manualPosition
  /\ Len(state.history) = press.histLen

\* the square of the distance of a delta
Square(delta) == delta[1] * delta[1] + delta[2] * delta[2]

Document(st) == <<st.root, st.history, st.historyIndex>>

\* C19: a pointer-down on a node at once selects it and ends the edit mode; a
\* Click (a press released without a drag) changes nothing of the tree and the
\* history, and leaves the node selected; the second of two Clicks on one
\* node within the double-click interval ends with the node selected and in
\* text-edit mode, a single Click with no node in text-edit mode.
C19_ClickAndDoubleClick ==
  [][/\ last'.op = "pointerDown" =>
           /\ state'.selectedNodeId = last'.arg
           /\ editingNodeId' = Null
           /\ Document(state') = Document(state)
     /\ (last'.op = "pointerUp" /\ ~press'.reached) =>
           /\ state'.selectedNodeId = press'.node
           /\ Document(state') = Document(state)
           /\ state'.root = press'.root
           /\ Len(state'.history) = press'.histLen
           /\ editingNodeId' = IF press'.dbl THEN press'.node ELSE Null
    ]_vars

\* node 202 was clicked twice while node 201 was in text-edit mode
C19_Witness ==
  /\ Released /\ ~press.reached /\ press.dbl
  /\ press.node = 202 /\ press.wasEditing = 201
  /\ state.selectedNodeId = 202 /\ editingNodeId = 202
  /\ drag.elapsed <= DoubleClickInterval

----------------------------------------------------------------------------
(* The text editor *)

\* C20: in every state, whenever a node is in text-edit mode (editingNodeId
\* holds one id at most), it is the selected node.
C20_EditingIsSelection ==
  editingNodeId # Null => editingNodeId = state.selectedNodeId

\* Tab added node 2 under node 1, ArrowLeft selected node 1 again, and then
\* the timer put node 2 in text-edit mode
C20_TimerAfterArrow ==
  /\ last.op = "setEditingNodeId" /\ last.arg = 2
  /\ editingNodeId = 2
  /\ state.selectedNodeId = 1
  /\ ParentIdOf(state.root, 2) = 1

\* C21: Escape pressed while a node is in text-edit mode ends the edit mode
\* and changes nothing else: the live tree (the node's text with it), the
\* selection, the history and historyIndex stay as they were, whatever the
\* editor holds.
C21_EscapeOnlyEndsEditing ==
  [][last'.op = "escape" => editingNodeId' = Null /\ state' = state]_vars

\* Escape in the focused editor holding " Idea " gave the root that text and
\* pushed a snapshot
C21_EscapeCommitted ==
  /\ last.op = "escape" /\ last.arg = 1 /\ last.more = <<(<<" ", "Idea", " ">>)>>
  /\ editingNodeId = Null
  /\ state.root.text = "Idea"
  /\ state.history = <<createInitialNode(1), state.root>>
  /\ state.historyIndex = 1

\* the steps in which the inline editor lost the focus
BlurOps == {"blur", "inputEnter", "escape"}

\* the pieces the editor held, without the white space before the first word
\* and after the last, as one string
Trimmed(value) ==
  LET words == {i \in 1..Len(value) : value[i] # " "}
      first == CHOOSE i \in words : \A j \in words : i <= j
      final == CHOOSE i \in words : \A j \in words : j <= i
  IN  IF words = {} THEN "" ELSE join(SubSeq(value, first, final))

\* the tree with the text of the node id replaced
RECURSIVE WithText(_, _, _)
WithText(node, id, text) ==
  [node EXCEPT !.text = IF node.id = id THEN text ELSE @,
               !.children = [i \in 1..Len(node.children) |->
                               WithText(node.children[i], id, text)]]

\* C22: when the inline editor loses the focus and the trimmed text is not
\* empty, the node's text is replaced by the trimmed text, one snapshot is
\* pushed and the edit mode ends; when the trimmed text is empty the node
\* keeps its text and nothing is pushed (the state is left as it was).
C22_BlurCommitsNonEmpty ==
  [][(last'.op \in BlurOps /\ last'.more # <<>>) =>
       LET text == Trimmed(last'.more[1])
       IN  IF text # "" /\ last'.hit
           THEN /\ state' = [state EXCEPT
                               !.root = WithText(state.root, last'.arg, text),
                               !.history = OnePushed,
                               !.historyIndex = Len(OnePushed) - 1]
                /\ editingNodeId' = Null
           ELSE /\ state' = state
                /\ text = "" => editingNodeId' = editingNodeId]_vars

\* the editor of node 2, holding white space only, lost the focus: node 2 is
\* still "New Node" and still edited, and the history is the one Tab left
C22_Witness ==
  /\ last.op = "blur" /\ last.arg = 2 /\ last.more = <<(<<" ">>)>>
  /\ editingNodeId = 2
  /\ 2 \in NodeIdsOf(state.root) /\ NodeById(state.root, 2).text = DefaultText
  /\ Len(state.history) = 2 /\ state.historyIndex = 1
  /\ state.history[2] = state.root

\* the entry of the visible node list before the node id, and the one after
\* it; the node itself when there is none
ShownBefore(root, id) ==
  LET above == {k \in ShownIds(root) : ComesBefore(root, k, id)}
  IN  IF above = {} THEN id
      ELSE CHOOSE k \in above : \A j \in above \ {k} : ComesBefore(root, j, k)
ShownAfter(root, id) ==
  LET below == {k \in ShownIds(root) : ComesBefore(root, id, k)}
  IN  IF below = {} THEN id
      ELSE CHOOSE k \in below : \A j \in below \ {k} : ComesBefore(root, k, j)

\* what a key that moves the selection makes of the selection id
Target(root, key, id) ==
  LET node == NodeById(root, id)
  IN  CASE key = "ArrowUp" -> ShownBefore(root, id)
        [] key = "ArrowDown" -> ShownAfter(root, id)
        [] key \in {"ArrowLeft", "Shift+Tab"} ->
             IF id = root.id THEN id ELSE ParentIdOf(root, id)
        [] key = "ArrowRight" ->
             IF ~node.collapsed /\ Len(node.children) > 0 THEN node.children[1].id
             ELSE id

MoveKeys == {"ArrowUp", "ArrowDown", "ArrowLeft", "Shift+Tab", "ArrowRight"}

\* C23: with a selected node that is in the visible node list and no node in
\* text-edit mode, Up and Down select the entry before and the entry after
\* the selection in the visible node list, Left and Shift+Tab select the
\* parent of the selection, Right selects its first child only if the
\* selection is expanded and has a child; the tree and the history stay as
\* they were.
C23_KeysMoveSelection ==
  [][(last'.key \in MoveKeys /\ state.selectedNodeId \in ShownIds(state.root))
     => state' = [state EXCEPT !.selectedNodeId =
                    Target(state.root, last'.key, state.selectedNodeId)]]_vars

\* Down moved the selection from A1, collapsed, to B, its parent's next
\* sibling, in the plan whose root had been expanded
C23_Witness ==
  /\ last.key = "ArrowDown" /\ last.arg = 105
  /\ state.selectedNodeId = 103
  /\ state.root.id = 101 /\ ~state.root.collapsed
  /\ NodeById(state.root, 105).collapsed
  /\ Len(NodeById(state.root, 105).children) = 1

\* C24: Tab pressed with a node selected and no node in text-edit mode adds
\* a new last child to the selected node and selects it, and when the edit
\* mode that Tab asked for starts, whatever was processed in between, the new
\* child is in the tree, is the selection and is the node in text-edit mode.
C24_TabEditsNewChild ==
  [][/\ (last'.key = "Tab" /\ state.selectedNodeId \in NodeIdsOf(state.root))
        => /\ last'.ret \notin NodeIdsOf(state.root)
           /\ last'.ret \in NodeIdsOf(state'.root)
           /\ ChildIds(NodeById(state'.root, state.selectedNodeId))
                = Append(ChildIds(NodeById(state.root, state.selectedNodeId)), last'.ret)
           /\ state'.selectedNodeId = last'.ret
     /\ last'.op = "setEditingNodeId"
        => /\ editingNodeId' = last'.arg
           /\ last'.arg \in NodeIdsOf(state'.root)
           /\ state'.selectedNodeId = last'.arg]_vars

\* Tab added node 2 under node 1, undo took it out of the tree again, and
\* then the timer put node 2 in text-edit mode
C24_TimerAfterUndo ==
  /\ last.op = "setEditingNodeId" /\ last.arg = 2
  /\ editingNodeId = 2
  /\ 2 \notin NodeIdsOf(state.root)
  /\ state.historyIndex = 0 /\ Len(state.history) = 2
  /\ 2 \in NodeIdsOf(state.history[2])

\* the keys of handleKeyDown that move the selection or change the tree
TreeKeys == MoveKeys \cup {"Tab", "Space", "Shift+Space", "Delete"}

\* the selection has no relative of the kind the key looks for
NoRelative(root, key, id) ==
  LET node == NodeById(root, id)
  IN  CASE key = "ArrowUp" -> id \in ShownIds(root) /\ ShownBefore(root, id) = id
        [] key = "ArrowDown" -> id \in ShownIds(root) /\ ShownAfter(root, id) = id
        [] key \in {"ArrowLeft", "Shift+Tab"} -> id = root.id
        [] key = "ArrowRight" -> node.collapsed \/ Len(node.children) = 0
        [] key \in {"Space", "Shift+Space"} -> Len(node.children) = 0
        [] key = "Delete" -> id = root.id
        [] OTHER -> FALSE

\* C25: Up, Down, Left, Right, Tab, Shift+Tab, Space, Shift+Space and Delete
\* leave the tree, the selection, the node in text-edit mode and the history
\* as they were when no node is selected, and when the selected node has no
\* relative of the kind the key looks for: Up at the first visible node, Down
\* at the last, Left and Shift+Tab at the root, Right on a collapsed or
\* childless node, Space and Shift+Space on a childless node, Delete on the
\* root.
C25_KeysWithoutTarget ==
  [][(/\ last'.key \in TreeKeys
      /\ \/ state.selectedNodeId = Null
         \/ /\ state.selectedNodeId \in NodeIdsOf(state.root)
            /\ NoRelative(state.root, last'.key, state.selectedNodeId))
     => state' = state /\ editingNodeId' = editingNodeId]_vars

\* Space was pressed on C, a node without children of the plan, whose root
\* had been expanded: the history is the one that step left
C25_Witness ==
  /\ last.key = "Space" /\ last.arg = 104 /\ last.op = "none"
  /\ state.selectedNodeId = 104
  /\ state.root.id = 101 /\ ~state.root.collapsed
  /\ Len(NodeById(state.root, 104).children) = 0
  /\ ~NodeById(state.root, 104).collapsed
  /\ Len(state.history) = 2 /\ state.historyIndex = 1

\* the nodes of a document as it was parsed, fields absent or not
RECURSIVE Parsed(_)
Parsed(node) ==
  {node} \cup (IF Has(node, "children")
               THEN UNION {Parsed(node.children[i]) : i \in 1..Len(node.children)}
               ELSE {})

\* the node n of the live tree is the parsed node raw with its absent
\* fields filled in
Filled(raw, n) ==
  /\ \A f \in {"id", "text", "x", "y", "color"} : n[f] = raw[f]
  /\ ChildIds(n) = IF Has(raw, "children")
                   THEN [i \in 1..Len(raw.children) |-> raw.children[i].id]
                   ELSE <<>>
  /\ n.collapsed = IF Has(raw, "collapsed") THEN raw.collapsed ELSE FALSE
  /\ n.manualPosition = IF Has(raw, "manualPosition") THEN raw.manualPosition ELSE FALSE
  /\ n.icon = IF Has(raw, "icon") /\ raw.icon \in NODE_ICON_VALUES THEN raw.icon
              ELSE "none"

DocumentTexts == {"<plan>", "<note>"}

\* C30: when loading a document fails, because the text is not valid JSON or
\* is not a usable node document, the live tree, the selection, the node in
\* text-edit mode, the history, historyIndex and the current file path are
\* left as they were.
C30_FailedLoadChangesNothing ==
  [][(last'.op = "loadFile" /\ last'.more[1] \notin DocumentTexts)
     => /\ state' = state
        /\ editingNodeId' = editingNodeId
        /\ currentFilePath' = currentFilePath]_vars

\* a file holding {} was opened: the live tree is a node without id and
\* text, nothing is selected or edited, the history is that node alone and
\* the file is the current one
C30_ObjectLoaded ==
  /\ last.op = "loadFile" /\ last.more = <<"{}">>
  /\ DOMAIN state.root = {"children", "collapsed", "manualPosition", "icon"}
  /\ state.selectedNodeId = Null
  /\ editingNodeId = Null
  /\ state.history = <<state.root>> /\ state.historyIndex = 0
  /\ currentFilePath = DocPath

----------------------------------------------------------------------------
(* The layout *)

\* the render effect ran after the last operation
Drawn == last.geo # <<>>

\* node k of the nodes drawn is node a or below it
RECURSIVE Under(_, _, _)
Under(nodes, a, k) ==
  IF k = a THEN TRUE
  ELSE IF nodes[k].parent = 0 THEN FALSE
  ELSE Under(nodes, a, nodes[k].parent)

\* the box of a drawn node: getHorizontalBounds, and x -+ boxHeight / 2
BoxLeft(n) == IF n.depth >= 3 THEN n.y - Px(TEXT_LEFT_PADDING) ELSE n.y - n.boxWidth \div 2
BoxRight(n) == IF n.depth >= 3 THEN n.y + n.layoutWidth ELSE n.y + n.boxWidth \div 2
BoxTop(n) == n.x - n.boxHeight \div 2
BoxBottom(n) == n.x + n.boxHeight \div 2
BoxesOverlap(a, b) ==
  /\ Min(BoxRight(a), BoxRight(b)) > Max(BoxLeft(a), BoxLeft(b))
  /\ Min(BoxBottom(a), BoxBottom(b)) > Max(BoxTop(a), BoxTop(b))

\* where d3.tree put the bottom of the lowest box, and the top of the
\* highest, of node a and the nodes below it
Lowest0(nodes, a) ==
  LET bottoms == {nodes[k].x0 + nodes[k].boxHeight \div 2 :
                    k \in {k \in DOMAIN nodes : Under(nodes, a, k)}}
  IN  CHOOSE m \in bottoms : \A o \in bottoms : o <= m
Highest0(nodes, a) ==
  LET tops == {nodes[k].x0 - nodes[k].boxHeight \div 2 :
                 k \in {k \in DOMAIN nodes : Under(nodes, a, k)}}
  IN  CHOOSE m \in tops : \A o \in tops : o >= m

\* b is the sibling after a, and d3.tree put its subtree so that it overlaps
\* the lowest box of a's subtree, by Overlap0
Overlap0(nodes, a, b) == Lowest0(nodes, a) - Highest0(nodes, b)
Collide0(nodes, a, b) ==
  /\ b = a + 1 /\ nodes[a].parent = nodes[b].parent
  /\ Overlap0(nodes, a, b) > 0

\* all nodes of b's subtree were moved down by the overlap and the padding,
\* or more
MovedClear(nodes, a, b) ==
  \A k \in DOMAIN nodes :
    Under(nodes, b, k) =>
      nodes[k].x - nodes[k].x0 >= Overlap0(nodes, a, b) + Px(VERTICAL_PADDING)

NoBoxesOverlap(nodes) ==
  \A a, b \in DOMAIN nodes : a # b => ~BoxesOverlap(nodes[a], nodes[b])

\* what is compared of two runs of the effect: the place and the box of
\* every node
Geometry(nodes) ==
  [k \in DOMAIN nodes |->
     [id |-> nodes[k].id, x |-> nodes[k].x, y |-> nodes[k].y,
      boxWidth |-> nodes[k].boxWidth, boxHeight |-> nodes[k].boxHeight,
      layoutWidth |-> nodes[k].layoutWidth]]

\* the places the automatic layout gives the nodes drawn of a tree
AutoPlaces(root) ==
  LET h == hierarchy(root)
      P == autoLayout(h, metricsMap(h), treeLayout(h)).P
  IN  [k \in DOMAIN P |-> <<P[k].x, P[k].y>>]

\* C26: if any node of the tree, drawn or hidden in a collapsed subtree, has
\* manualPosition = TRUE, the effect runs no automatic layout and draws every
\* node at the x and y its data held; if no node has it, every node is drawn
\* where the automatic layout puts it.
C26_ManualNodeDisablesAutoLayout ==
  Drawn =>
    IF ManualCount(state.root) > 0
    THEN /\ ~last.geo.auto
         /\ \A k \in DOMAIN last.geo.nodes :
              last.geo.nodes[k].stored = <<last.geo.nodes[k].x, last.geo.nodes[k].y>>
    ELSE /\ last.geo.auto
         /\ \A k \in DOMAIN last.geo.nodes :
              <<last.geo.nodes[k].x, last.geo.nodes[k].y>> = AutoPlaces(state.root)[k]

\* node A of the fork was dropped at a place of its own: no automatic
\* layout ran, every node is drawn where its data says, and that is not
\* where the automatic layout would put them
C26_DraggedNodeDrawn ==
  /\ Drawn /\ last.op = "updateNodePosition" /\ last.arg = 402
  /\ ManualCount(state.root) = 1
  /\ ~last.geo.auto
  /\ \A k \in DOMAIN last.geo.nodes :
       last.geo.nodes[k].stored = <<last.geo.nodes[k].x, last.geo.nodes[k].y>>
  /\ \E k \in DOMAIN last.geo.nodes :
       last.geo.nodes[k].id = 402
         /\ <<last.geo.nodes[k].x, last.geo.nodes[k].y>> = <<Px(300), Px(40)>>
         /\ <<last.geo.nodes[k].x, last.geo.nodes[k].y>> # AutoPlaces(state.root)[k]

\* C27: running the effect again on the tree it has drawn, the positions it
\* wrote into the nodes included, gives every node the same place and the
\* same box, runs the automatic layout if and only if the first run did, and
\* writes the same positions into the tree.
C27_LayoutRepeats ==
  Drawn =>
    /\ Geometry(layout(state.root).nodes) = Geometry(last.geo.nodes)
    /\ layout(state.root).auto = last.geo.auto
    /\ layout(state.root).root = state.root

\* a click on a node of the fork made the effect run a second time on the
\* tree the automatic layout had drawn, in which B was moved down
C27_SecondRun ==
  /\ Drawn /\ last.op = "handleNodeClick" /\ state.root.id = 401
  /\ last.geo.auto
  /\ \E k \in DOMAIN last.geo.nodes :
       last.geo.nodes[k].id = 403 /\ last.geo.nodes[k].x > last.geo.nodes[k].x0
  /\ \E k \in DOMAIN last.geo.nodes :
       NodeById(state.root, last.geo.nodes[k].id).x = last.geo.nodes[k].x
         /\ last.geo.nodes[k].x # 0

\* C28: after an automatic layout, a subtree that d3.tree put so that it
\* overlaps the lowest box of the subtree of the sibling before it by d is
\* moved down, every node of it, by d and the padding or more, and no two
\* boxes drawn overlap both horizontally and vertically.
C28_CollisionsResolved ==
  (Drawn /\ last.geo.auto) =>
    /\ \A a, b \in DOMAIN last.geo.nodes :
         Collide0(last.geo.nodes, a, b) => MovedClear(last.geo.nodes, a, b)
    /\ NoBoxesOverlap(last.geo.nodes)

\* the fork was drawn: d3.tree put B where it overlaps the third child of A
\* by 50 px, B was moved down by 58 px, and no boxes overlap
C28_ForkResolved ==
  /\ Drawn /\ last.geo.auto /\ state.root.id = 401
  /\ \E a, b \in DOMAIN last.geo.nodes :
       /\ last.geo.nodes[a].id = 402 /\ last.geo.nodes[b].id = 403
       /\ Collide0(last.geo.nodes, a, b)
       /\ Overlap0(last.geo.nodes, a, b) = Px(50)
       /\ last.geo.nodes[b].x - last.geo.nodes[b].x0 = Px(58)
       /\ MovedClear(last.geo.nodes, a, b)
  /\ NoBoxesOverlap(last.geo.nodes)

\* the deep document was drawn: the loop of resolveCollisions ended with a
\* pass that still moved nodes, and two boxes overlap
C28_DeepOverlap ==
  /\ Drawn /\ last.geo.auto /\ state.root.id = 500
  /\ ~NoBoxesOverlap(last.geo.nodes)

----------------------------------------------------------------------------
(* Saving and loading *)

\* C31: the text serializeMindMap writes for the live tree, parsed and
\* normalised as a load does, is a tree equal to the live tree in every
\* field of every node and in the order of the children.
C31_SaveLoadRoundTrip == loadedTree(serializeMindMap(state)) = state.root

\* a live tree of two nodes or more, one of them placed by hand and one of
\* them collapsed or with an icon, is written as more than forty tokens and
\* read back as it was
C31_Witness ==
  /\ NodeCount(state.root) >= 2
  /\ \E n \in Nodes(state.root) : n.manualPosition /\ n.x # 0
  /\ \E n \in Nodes(state.root) : n.collapsed \/ n.icon # "none"
  /\ Len(serializeMindMap(state)) > 40
  /\ loadedTree(serializeMindMap(state)) = state.root

----------------------------------------------------------------------------
(* Undo without limit *)

\* C32: when n mutations of a document were followed by n undo() calls, the
\* live tree is the tree the document started with, whatever n.
C32_UndoUnlimited ==
  (ur.stage = "undo" /\ ur.m = ur.n) => state.root = ur.base[1]

\* what n undo() calls do after n mutations: the index is 0 and the live
\* tree is the oldest snapshot the history holds; that is the tree the
\* document started with when n is less than MAX_HISTORY, and with n of
\* MAX_HISTORY or more the history is full
UndoWithinHistory ==
  (ur.stage = "undo" /\ ur.m = ur.n) =>
    /\ state.historyIndex = 0
    /\ state.root = state.history[1]
    /\ ur.n < MAX_HISTORY => state.root = ur.base[1]
    /\ ur.n >= MAX_HISTORY => Len(state.history) = MAX_HISTORY

\* MAX_HISTORY - 1 mutations filled the history, and as many undo() calls
\* brought the starting tree back
C32_UndoneToStart ==
  /\ ur.stage = "undo" /\ ur.m = ur.n /\ ur.n = MAX_HISTORY - 1
  /\ last.op = "undo"
  /\ Len(state.history) = MAX_HISTORY
  /\ state.root = ur.base[1]

----------------------------------------------------------------------------
(* The tree *)

RECURSIVE Occurrences(_, _)
\* how many places in the child sequences of the tree hold a node with the id
Occurrences(node, id) ==
  LET RECURSIVE sum(_)
      sum(i) ==
        IF i > Len(node.children) THEN 0
        ELSE (IF node.children[i].id = id THEN 1 ELSE 0)
             + Occurrences(node.children[i], id) + sum(i + 1)
  IN  sum(1)

\* C33: the ids of the nodes of the live tree are pairwise distinct, every
\* node but the root is in one place of one child sequence, the root in
\* none, and the root's id is the id Init created the document with.
C33_StrictTree ==
  /\ Cardinality(NodeIdsOf(state.root)) = NodeCount(state.root)
  /\ \A id \in NodeIdsOf(state.root) :
       Occurrences(state.root, id) = IF id = state.root.id THEN 0 ELSE 1
  /\ state.root.id = createInitialNode(1).id

\* a tree of three levels that came back by redo(): a node was added to the
\* root and one to that node, and the second addition was undone
C33_Witness ==
  /\ last.op = "redo"
  /\ NodeCount(state.root) >= 3
  /\ \E n \in Nodes(state.root) : n.id # state.root.id /\ n.children # <<>>

----------------------------------------------------------------------------
(* Collision resolution *)

\* C34: when the automatic layout runs, between one and MAX_ITERATIONS passes
\* of adjustSiblings run; every pass but the last made an adjustment, and
\* the last one made none unless it is pass MAX_ITERATIONS; a pass made an
\* adjustment exactly when it shifted a subtree.
C34_PassesUntilQuiet ==
  (Drawn /\ last.geo.auto) =>
    LET passes == last.geo.passes
    IN  /\ Len(passes) \in 1..MAX_ITERATIONS
        /\ \A i \in 1..Len(passes) - 1 : passes[i].hadAdjustment
        /\ ~passes[Len(passes)].hadAdjustment \/ Len(passes) = MAX_ITERATIONS
        /\ \A i \in 1..Len(passes) : passes[i].hadAdjustment <=> passes[i].shifts # <<>>

\* the deep document was drawn: MAX_ITERATIONS passes ran, and the last one
\* still shifted a subtree
C34_CapReached ==
  /\ Drawn /\ last.geo.auto /\ state.root.id = 500
  /\ Len(last.geo.passes) = MAX_ITERATIONS
  /\ last.geo.passes[MAX_ITERATIONS].hadAdjustment

\* the fork was drawn: the first pass shifted B, the second pass shifted
\* nothing and was the last
C34_ForkTwoPasses ==
  /\ Drawn /\ last.geo.auto /\ state.root.id = 401
  /\ Len(last.geo.passes) = 2
  /\ Len(last.geo.passes[1].shifts) = 1
  /\ ~last.geo.passes[2].hadAdjustment

\* the shifts of all passes, in the order they were made
RECURSIVE AllShifts(_)
AllShifts(passes) ==
  IF passes = <<>> THEN <<>> ELSE Head(passes).shifts \o AllShifts(Tail(passes))

\* with the nodes at the positions P: the bottom of the lowest box, and the
\* top of the highest, of node a and the nodes below it
LowestAt(nodes, P, a) ==
  LET bottoms == {P[k].x + nodes[k].boxHeight \div 2 :
                    k \in {k \in DOMAIN nodes : Under(nodes, a, k)}}
  IN  CHOOSE m \in bottoms : \A o \in bottoms : o <= m
HighestAt(nodes, P, a) ==
  LET tops == {P[k].x - nodes[k].boxHeight \div 2 :
                 k \in {k \in DOMAIN nodes : Under(nodes, a, k)}}
  IN  CHOOSE m \in tops : \A o \in tops : o >= m

\* shift s found the nodes at the positions P: it moved the node and every
\* node below it down by the same amount, the lowest edge of the subtree of
\* the sibling before it plus the padding minus the highest edge of its own
\* subtree, and no other node; no node was moved sideways
ShiftAsStated(nodes, P, s) ==
  /\ s.deltaX > 0
  /\ s.deltaX = LowestAt(nodes, P, s.previous) + Px(VERTICAL_PADDING)
                  - HighestAt(nodes, P, s.node)
  /\ nodes[s.previous].parent = nodes[s.node].parent
  /\ \A k \in DOMAIN nodes :
       /\ s.P[k].y = P[k].y
       /\ s.P[k].x - P[k].x = IF Under(nodes, s.node, k) THEN s.deltaX ELSE 0

\* C35: when the automatic layout runs, no node is drawn above the row
\* collision resolution found it in, every node is drawn in the column it
\* was found in, and every shift is as stated.
C35_ShiftsOnlyDown ==
  (Drawn /\ last.geo.auto) =>
    LET nodes  == last.geo.nodes
        shifts == AllShifts(last.geo.passes)
    IN  /\ \A k \in DOMAIN nodes :
             /\ nodes[k].x >= last.geo.before[k].x
             /\ nodes[k].y = last.geo.before[k].y
        /\ \A j \in 1..Len(shifts) :
             ShiftAsStated(nodes, IF j = 1 THEN last.geo.before ELSE shifts[j - 1].P,
                           shifts[j])
        /\ \A k \in DOMAIN nodes :
             shifts # <<>> => nodes[k].x = shifts[Len(shifts)].P[k].x

\* the twin document was drawn: B was shifted with the two nodes below it
C35_Witness ==
  /\ Drawn /\ last.geo.auto /\ state.root.id = 801
  /\ \E j \in 1..Len(AllShifts(last.geo.passes)) :
       LET s == AllShifts(last.geo.passes)[j]
       IN  /\ last.geo.nodes[s.node].id = 803
           /\ Cardinality({k \in DOMAIN last.geo.nodes :
                             Under(last.geo.nodes, s.node, k)}) = 3
           /\ \A k \in DOMAIN last.geo.nodes :
                Under(last.geo.nodes, s.node, k) =>
                  last.geo.nodes[k].x = last.geo.before[k].x + s.deltaX

----------------------------------------------------------------------------
(* Text wrapping *)

MaxContentWidth == Px(MAX_BOX_WIDTH - BOX_HORIZONTAL_PADDING)

RECURSIVE Total(_)
Total(lengths) == IF lengths = <<>> THEN 0 ELSE Head(lengths) + Total(Tail(lengths))

\* C36: a text without words is wrapped into one empty line; of any other
\* text every line of more than one character is at most as wide as the
\* maximum content width, and the lines hold the characters of the words and
\* no others but the spaces between words of one line.
C36_WrapAsStated ==
  last.op = "wrapTextForNode" =>
    LET words == last.more
        lines == last.ret.lines
    IN  IF words = <<>> THEN lines = <<0>>
        ELSE /\ \A i \in 1..Len(lines) :
                  lines[i] > 1 => measureTextWidth(lines[i], last.arg) <= MaxContentWidth
             /\ \A i \in 1..Len(lines) : lines[i] > 0
             /\ Total(lines) - Total(words) \in 0..Len(words) - 1

\* at depth 3 a word of 90 characters after a short word was split: the
\* lines are the short word, 52 characters and 38 characters
C36_SplitDeep ==
  /\ last.op = "wrapTextForNode" /\ last.arg = 3
  /\ last.more = <<3, 90>>
  /\ last.ret.lines = <<3, 52, 38>>
  /\ \A i \in 1..Len(last.ret.lines) :
       measureTextWidth(last.ret.lines[i], 3) <= MaxContentWidth

\* at depth 1 a word of 43 characters at the start of the text was left
\* whole, on a line wider than the maximum content width
C36_WideFirstWord ==
  /\ last.op = "wrapTextForNode" /\ last.arg = 1
  /\ last.more = <<43>>
  /\ last.ret.lines = <<43>>
  /\ measureTextWidth(43, 1) > MaxContentWidth

----------------------------------------------------------------------------
(* The selection and the node in text-edit mode *)

SelectionInTree ==
  state.selectedNodeId = Null \/ state.selectedNodeId \in NodeIdsOf(state.root)
EditingInTree == editingNodeId = Null \/ editingNodeId \in NodeIdsOf(state.root)

\* C37: in every reachable state selectedNodeId is null or the id of a node
\* of the live tree, and so is editingNodeId.
C37_SelectionAndEditingInTree == SelectionInTree /\ EditingInTree

\* the selected node was deleted while no node was in text-edit mode: the
\* selection is a node of the tree
C37_AfterDelete ==
  /\ last.op = "deleteNode" /\ last.arg \notin NodeIdsOf(state.root)
  /\ state.selectedNodeId \in NodeIdsOf(state.root)
  /\ editingNodeId = Null

\* undo() took the node that was added, and is selected, out of the tree
C37_UndoLeavesSelection ==
  /\ last.op = "undo"
  /\ state.selectedNodeId # Null /\ state.selectedNodeId \notin NodeIdsOf(state.root)

\* undo() took the node in text-edit mode out of the tree
C37_UndoLeavesEditing ==
  /\ last.op = "undo"
  /\ editingNodeId # Null /\ editingNodeId \notin NodeIdsOf(state.root)

----------------------------------------------------------------------------
(* Undo of one mutation *)

\* the states the history-pushing mutations lead to from st, for every node
\* id: those that pushed a snapshot
Mutated(st) ==
  {m \in UNION {{toggleNodeCollapse(st, id),
                 updateNodeText(st, id, "Idea"),
                 updateNodeIcon(st, id, "idea"),
                 deleteNode(st, id),
                 addNode(st, id, DefaultText, uuidv4).state} : id \in NodeIdsOf(st.root)} :
     m.history # st.history}

\* C38: from any state, a successful mutation followed by undo() leaves the
\* live tree the state had, whether or not positions were changed since the
\* last snapshot.
C38_UndoInvertsMutation == \A m \in Mutated(state) : undo(m).root = state.root

\* what undo() does after a mutation: the live tree is the snapshot the
\* history held at the index, which is the live tree the state had if no
\* position was changed since that snapshot was taken
UndoRestoresSnapshot ==
  \A m \in Mutated(state) :
    /\ undo(m).root = state.history[state.historyIndex + 1]
    /\ undo(m).historyIndex = state.historyIndex
    /\ state.root = state.history[state.historyIndex + 1] => undo(m).root = state.root

\* a node was dragged, then a mutation was made and undone: the snapshot the
\* mutation pushed holds the dragged node, the live tree does not
C38_DragLostByUndo ==
  /\ last.op = "undo"
  /\ state.historyIndex + 2 <= Len(state.history)
  /\ ManualCount(state.history[state.historyIndex + 2]) > 0
  /\ ManualCount(state.root) = 0
  /\ state.root = state.history[state.historyIndex + 1]

----------------------------------------------------------------------------
(* A new session *)

----------------------------------------------------------------------------
(* The open-file dialog *)

\* how many dialogs are shown
DialogsOpen == Cardinality({i \in DOMAIN dialogs.calls : dialogs.calls[i].at = "dialog"})

\* what a loaded file replaces
Opened == <<state, editingNodeId, currentFilePath>>

\* main's flag is set exactly while a dialog is shown, App's lock exactly
\* while a call of handleLoad is in flight
FlagsReleased ==
  /\ dialogs.openDialogInProgress = (DialogsOpen = 1)
  /\ dialogs.load = (\E i \in DOMAIN dialogs.calls : dialogs.calls[i].from = "toolbar")

\* a request that reaches main while the flag is set is answered
\* 'dialog-in-progress', one that reaches it while the flag is not set shows
\* the dialog; a click on the toolbar while App's lock is held does nothing;
\* none of them touches the document, and neither does the return of a call
\* that was answered 'dialog-in-progress'
RequestStep ==
  /\ last'.op \in {"load-file", "Open..."} =>
       /\ Opened' = Opened
       /\ IF dialogs.openDialogInProgress
          THEN DialogsOpen' = DialogsOpen /\ last'.ret = DialogInProgress.error
          ELSE DialogsOpen' = 1 /\ last'.ret = ""
  /\ last'.op = "handleLoad" =>
       /\ Opened' = Opened
       /\ DialogsOpen' = DialogsOpen
       /\ dialogs.load => dialogs' = dialogs
  /\ (last'.op = "handleLoad returns" /\ last'.ret = DialogInProgress.error) =>
       Opened' = Opened

\* C40: at most one open-file dialog is shown at any time; a request made
\* while one is in progress is rejected, shows no second dialog and leaves
\* the document as it is; and the flag is released however the dialog ends
\* (a file chosen, Cancel, a file that cannot be read or parsed), so that the
\* next request shows the dialog
C40_OneDialogAtATime ==
  /\ [](DialogsOpen <= 1 /\ FlagsReleased)
  /\ [][RequestStep]_vars

\* the menu's dialog is shown, and the toolbar's request, made meanwhile, has
\* been answered 'dialog-in-progress'; the document is one that an earlier
\* dialog opened
C40_RejectedWhileOpen ==
  /\ DialogsOpen = 1
  /\ currentFilePath = DocPath
  /\ \E i, j \in DOMAIN dialogs.calls :
       /\ dialogs.calls[i].from = "menu"
       /\ dialogs.calls[i].at = "dialog"
       /\ dialogs.calls[j].from = "toolbar"
       /\ dialogs.calls[j].result = DialogInProgress

====
